---------------------------- MODULE Spec2Model ----------------------------
(***************************************************************************)
(* A model of streamdown-rs: the block-level streaming parser              *)
(* (streamdown-parser), the inline tokenizer/formatter it delegates to,    *)
(* and the ANSI-aware text wrapper (streamdown-render text_wrap).          *)
(*                                                                         *)
(* A line is a sequence of characters.  A character is a one-character     *)
(* string, except for the few non-ASCII characters the code treats         *)
(* specially, which are named: "FWSP" (U+3000, fullwidth space: 3 bytes,   *)
(* whitespace, 2 columns), "CJK" (a CJK ideograph: 3 bytes, 2 columns),    *)
(* "ELL" (U+2026 '...': 3 bytes, 1 column), "LTRI"/"RTRI" (U+25C1/U+25B7,  *)
(* the think-block brackets: 3 bytes, 1 column), "ESC" (0x1b), "BQ" (the    *)
(* backquote, 1 byte), and "LF" and "CR" (line feed and carriage return).  *)
(***************************************************************************)
EXTENDS Integers, Sequences, FiniteSets, TLC

VARIABLES
    state,              \* Parser.state : ParseState (the fields the parser uses)
    inline_parser,      \* Parser.inline_parser : tokenizer, format state, process_links / process_images
    code_fence,         \* Parser.code_fence : Option<String>  (<<>> is None)
    table_state,        \* Parser.table_state : Option<TableState>
    events,             \* the Vec<ParseEvent> returned by the last call
    prev_was_empty,     \* Parser.prev_was_empty
    list_pending_close, \* Parser.list_pending_close
    panicked,           \* a call has panicked (a slice off a char boundary)
    op,                 \* history: the last operation called
    arg,                \* history: the line given to the last parse_line
    taken,              \* history: per open list level, Ordered items taken since it was opened
    opened,             \* history: the constructs started and not yet ended in the event stream
    last_blank,         \* history: the last line of the stream was a blank line outside code/think
    tw,                 \* the text_wrap call in progress (SpecWrap)
    ac,                 \* the last ansi_collapse call: its code list and its result (SpecCollapse)
    pm,                 \* the PluginManager and its plugins (SpecPlugin)
    cli                 \* the command line program reading its input (SpecCli)

vars == <<state, inline_parser, code_fence, table_state, events, prev_was_empty,
          list_pending_close, panicked, op, arg, taken, opened, last_blank, tw, ac, pm, cli>>

-----------------------------------------------------------------------------
(* Characters and strings *)

\* char::is_whitespace / regex \s : ASCII space, tab, U+3000, CR, LF
IsWs(c) == c \in {" ", "\t", "FWSP", "CR", "LF"}

IsDigit(c) == c \in {"0", "1", "2", "3", "4", "5", "6", "7", "8", "9"}

\* UTF-8 length of a character
ByteLen(c) == IF c \in {"FWSP", "CJK", "ELL", "LTRI", "RTRI"} THEN 3 ELSE 1

SetMax(S) == CHOOSE x \in S : \A y \in S : y <= x

\* F applied to the value of v: v is evaluated once, whatever F does with it
With(v, F(_)) == CHOOSE r \in {F(w) : w \in {v}} : TRUE

SetMin(S) == CHOOSE x \in S : \A y \in S : x <= y

\* length of the longest run of characters of C that starts at position p of s
RECURSIVE RunLen(_, _, _)
RunLen(s, p, C) == IF p <= Len(s) /\ s[p] \in C THEN 1 + RunLen(s, p + 1, C) ELSE 0

\* length of the longest run of characters outside C that starts at position p of s
RECURSIVE RunOutside(_, _, _)
RunOutside(s, p, C) == IF p <= Len(s) /\ s[p] \notin C THEN 1 + RunOutside(s, p + 1, C) ELSE 0

\* s.chars().skip(n).collect()
SkipChars(s, n) == IF n >= Len(s) THEN <<>> ELSE SubSeq(s, n + 1, Len(s))

\* s.chars().take_while(|c| c.is_whitespace()).count()
LeadingWs(s) == RunLen(s, 1, {" ", "\t", "FWSP", "CR", "LF"})

RECURSIVE TrailingWs(_)
TrailingWs(s) == IF s # <<>> /\ IsWs(s[Len(s)]) THEN 1 + TrailingWs(SubSeq(s, 1, Len(s) - 1)) ELSE 0

\* str::trim
Trim(s) ==
    IF LeadingWs(s) = Len(s) THEN <<>>
    ELSE SubSeq(s, LeadingWs(s) + 1, Len(s) - TrailingWs(s))

\* str::len : the length in bytes
RECURSIVE ByteLength(_)
ByteLength(s) == IF s = <<>> THEN 0 ELSE ByteLen(Head(s)) + ByteLength(Tail(s))

\* byte offset b is a char boundary of s (str::is_char_boundary)
IsCharBoundary(s, b) == \E k \in 0..Len(s) : ByteLength(SubSeq(s, 1, k)) = b

\* &s[b..] : the characters from byte offset b on (defined on a char boundary)
SliceFrom(s, b) ==
    SkipChars(s, CHOOSE k \in 0..Len(s) : ByteLength(SubSeq(s, 1, k)) = b)

StartsWith(s, t) == Len(s) >= Len(t) /\ SubSeq(s, 1, Len(t)) = t

\* t occurs in s at position p
At(s, p, t) == p >= 1 /\ p + Len(t) - 1 <= Len(s) /\ SubSeq(s, p, p + Len(t) - 1) = t

Contains(s, t) == \E p \in 1..(Len(s) + 1) : At(s, p, t)

CountChar(s, c) == Cardinality({i \in 1..Len(s) : s[i] = c})

\* str::split(c) : the pieces between the occurrences of c
RECURSIVE Split(_, _)
Split(s, c) ==
    IF \A i \in 1..Len(s) : s[i] # c THEN <<s>>
    ELSE LET i == SetMin({j \in 1..Len(s) : s[j] = c})
         IN  <<SubSeq(s, 1, i - 1)>> \o Split(SubSeq(s, i + 1, Len(s)), c)

\* str::parse::<usize> of a run of ASCII digits
RECURSIVE ParseNat(_)
ParseNat(s) ==
    IF s = <<>> THEN 0
    ELSE 10 * ParseNat(SubSeq(s, 1, Len(s) - 1))
         + (CHOOSE d \in 0..9 : <<"0", "1", "2", "3", "4", "5", "6", "7", "8", "9">>[d + 1] = s[Len(s)])


-----------------------------------------------------------------------------
(* The block matchers' regular expressions, each as the match it finds *)

WsChars == {" ", "\t", "FWSP", "CR", "LF"}

\* length of the run of non-whitespace characters that starts at position p
RECURSIVE NonWsRun(_, _)
NonWsRun(s, p) == IF p <= Len(s) /\ ~IsWs(s[p]) THEN 1 + NonWsRun(s, p + 1) ELSE 0

\* length of the opening-fence token  ```+ | ~~~+ | <pre>  at position p, 0 if none
OpenFenceAt(s, p) ==
    IF RunLen(s, p, {"BQ"}) >= 3 THEN RunLen(s, p, {"BQ"})
    ELSE IF RunLen(s, p, {"~"}) >= 3 THEN RunLen(s, p, {"~"})
    ELSE IF At(s, p, <<"<", "p", "r", "e", ">">>) THEN 5
    ELSE 0

\* length of the closing-fence token  ```+ | ~~~+ | </pre>  at position p, 0 if none
CloseFenceAt(s, p) ==
    IF RunLen(s, p, {"BQ"}) >= 3 THEN RunLen(s, p, {"BQ"})
    ELSE IF RunLen(s, p, {"~"}) >= 3 THEN RunLen(s, p, {"~"})
    ELSE IF At(s, p, <<"<", "/", "p", "r", "e", ">">>) THEN 6
    ELSE 0

\* ^\s*(```+|~~~+|<pre>)\s*([^\s]*)\s*$
CODE_FENCE_RE(line) ==
    LET p     == LeadingWs(line) + 1
        n     == OpenFenceAt(line, p)
        rest  == SkipChars(line, p - 1 + n)
        a     == LeadingWs(rest)
        k     == NonWsRun(rest, a + 1)
        after == SkipChars(rest, a + k)
    IN  [ok    |-> n > 0 /\ LeadingWs(after) = Len(after),
         fence |-> SubSeq(line, p, p + n - 1),
         lang  |-> SubSeq(rest, a + 1, a + k)]

\* ^\s*(```+|~~~+|</pre>)\s*$
CODE_FENCE_END_RE(line) ==
    LET p     == LeadingWs(line) + 1
        n     == CloseFenceAt(line, p)
        after == SkipChars(line, p - 1 + n)
    IN  [ok    |-> n > 0 /\ LeadingWs(after) = Len(after),
         fence |-> SubSeq(line, p, p + n - 1)]

\* ^    \s*[^\s*]
SPACE_CODE_RE(line) ==
    /\ At(line, 1, <<" ", " ", " ", " ">>)
    /\ LET q == 5 + RunLen(line, 5, WsChars)
       IN  q <= Len(line) /\ line[q] # "*"

\* ^(#{1,6})\s+(.*)$
HEADING_RE(line) ==
    LET h  == RunLen(line, 1, {"#"})
        ws == RunLen(line, h + 1, WsChars)
    IN  [ok      |-> h >= 1 /\ h <= 6 /\ ws >= 1,
         hashes  |-> h,
         content |-> SkipChars(line, h + ws)]

\* ^(\s*)([+*-]|\+-+|\d+\.)\s+(.*)$
LIST_ITEM_RE(line) ==
    LET i  == LeadingWs(line)
        p  == i + 1
        \* the three bullet alternatives, in the order the regex tries them;
        \* each must be followed by whitespace
        b1 == IF p <= Len(line) /\ line[p] \in {"+", "*", "-"} THEN 1 ELSE 0
        d2 == IF p <= Len(line) /\ line[p] = "+" THEN RunLen(line, p + 1, {"-"}) ELSE 0
        b2 == IF d2 >= 1 THEN 1 + d2 ELSE 0
        d3 == RunLen(line, p, {"0", "1", "2", "3", "4", "5", "6", "7", "8", "9"})
        b3 == IF d3 >= 1 /\ p + d3 <= Len(line) /\ line[p + d3] = "." THEN d3 + 1 ELSE 0
        wsAfter(b) == RunLen(line, p + b, WsChars)
        b  == IF b1 > 0 /\ wsAfter(b1) >= 1 THEN b1
              ELSE IF b2 > 0 /\ wsAfter(b2) >= 1 THEN b2
              ELSE IF b3 > 0 /\ wsAfter(b3) >= 1 THEN b3
              ELSE 0
    IN  [ok      |-> b > 0,
         indent  |-> SubSeq(line, 1, i),
         bullet  |-> SubSeq(line, p, p + b - 1),
         content |-> SkipChars(line, i + b + wsAfter(b))]

Think5 == <<"t", "h", "i", "n", "k">>

\* ^\s*((>\s*)+|[◁<].?think[>▷]|</?.?think[>▷]?)(.*)$ : the length of group 1 at p
BlockMarkerAt(s, p) ==
    LET c(q) == IF q <= Len(s) THEN s[q] ELSE "EOL"
        \* (>\s*)+
        a  == IF c(p) = ">" THEN RunLen(s, p, {">", " ", "\t", "FWSP", "CR", "LF"}) ELSE 0
        \* [◁<].?think[>▷]   (.? first tries to take a character)
        b  == IF c(p) \notin {"LTRI", "<"} THEN 0
              ELSE IF p + 1 <= Len(s) /\ At(s, p + 2, Think5) /\ c(p + 7) \in {">", "RTRI"} THEN 8
              ELSE IF At(s, p + 1, Think5) /\ c(p + 6) \in {">", "RTRI"} THEN 7
              ELSE 0
        \* </?.?think[>▷]?   (each optional part first tries to match)
        closer(q) == IF c(q) \in {">", "RTRI"} THEN 1 ELSE 0
        cc == IF c(p) # "<" THEN 0
              ELSE IF c(p + 1) = "/" /\ p + 2 <= Len(s) /\ At(s, p + 3, Think5)
                   THEN 8 + closer(p + 8)
              ELSE IF c(p + 1) = "/" /\ At(s, p + 2, Think5) THEN 7 + closer(p + 7)
              ELSE IF p + 1 <= Len(s) /\ At(s, p + 2, Think5) THEN 7 + closer(p + 7)
              ELSE IF At(s, p + 1, Think5) THEN 6 + closer(p + 6)
              ELSE 0
    IN  IF a > 0 THEN a ELSE IF b > 0 THEN b ELSE cc

BLOCK_RE(line) ==
    LET p == LeadingWs(line) + 1
        n == BlockMarkerAt(line, p)
    IN  [ok      |-> n > 0,
         marker  |-> SubSeq(line, p, p + n - 1),
         content |-> SkipChars(line, p - 1 + n)]

\* ^(---+|\*\*\*+|___+)\s*$
HR_RE(s) ==
    \E c \in {"-", "*", "_"} :
        LET n == RunLen(s, 1, {c})
        IN  n >= 3 /\ RunLen(s, n + 1, WsChars) = Len(s) - n

\* ^\s*\|(.+)\|\s*$
TABLE_ROW_RE(line) ==
    LET t == Trim(line)
    IN  [ok    |-> Len(t) >= 3 /\ t[1] = "|" /\ t[Len(t)] = "|",
         inner |-> SubSeq(t, 2, Len(t) - 1)]

\* ^[\s|:-]+$
TABLE_SEP_RE(s) ==
    Len(s) >= 1 /\ \A i \in 1..Len(s) : s[i] \in {" ", "\t", "FWSP", "CR", "LF", "|", ":", "-"}

-----------------------------------------------------------------------------
(* streamdown-parser/src/tokenizer.rs *)

MarkerChars == {"~", "_", "*", "BQ"}

\* the marker tokens INLINE_TOKEN_RE knows, in the order its alternatives are tried
\* (after the leading  ```+  and before the trailing  `+  and text run)
MarkerTable ==
    << [m |-> <<"~", "~">>,      t |-> "DoubleTilde"],
       [m |-> <<"*", "*", "*">>, t |-> "TripleAsterisk"],
       [m |-> <<"*", "*", "_">>, t |-> "DoubleAsteriskUnderscore"],
       [m |-> <<"_", "*", "*">>, t |-> "UnderscoreDoubleAsterisk"],
       [m |-> <<"*", "*">>,      t |-> "DoubleAsterisk"],
       [m |-> <<"*">>,           t |-> "Asterisk"],
       [m |-> <<"_", "_", "_">>, t |-> "TripleUnderscore"],
       [m |-> <<"_", "_">>,      t |-> "DoubleUnderscore"],
       [m |-> <<"_">>,           t |-> "Underscore"] >>

\* Token::marker_str  (None is <<>>)
marker_str(tok) ==
    IF \E i \in 1..Len(MarkerTable) : MarkerTable[i].t = tok.type
    THEN MarkerTable[CHOOSE i \in 1..Len(MarkerTable) : MarkerTable[i].t = tok.type].m
    ELSE <<>>

\* the match of INLINE_TOKEN_RE that starts at position p: its length and token
\* (length 0: no alternative matches at p, and the regex search moves on)
InlineTokenAt(s, p) ==
    LET bq  == RunLen(s, p, {"BQ"})
        hit == {i \in 1..Len(MarkerTable) : At(s, p, MarkerTable[i].m)}
        txt == RunOutside(s, p, MarkerChars)
    IN  IF bq >= 3 THEN [len |-> bq, tok |-> [type |-> "Backticks", n |-> bq]]
        ELSE IF hit # {}
             THEN [len |-> Len(MarkerTable[SetMin(hit)].m),
                   tok |-> [type |-> MarkerTable[SetMin(hit)].t]]
        ELSE IF bq >= 1 THEN [len |-> bq, tok |-> [type |-> "Backticks", n |-> bq]]
        ELSE IF txt >= 1 THEN [len |-> txt, tok |-> [type |-> "Text", s |-> SubSeq(s, p, p + txt - 1)]]
        ELSE [len |-> 0, tok |-> [type |-> "None"]]

\* Tokenizer::tokenize_inline : the tokens INLINE_TOKEN_RE.find_iter yields from p on
RECURSIVE tokenize_inline_from(_, _)
tokenize_inline_from(s, p) ==
    IF p > Len(s) THEN <<>>
    ELSE LET m == InlineTokenAt(s, p)
         IN  IF m.len = 0 THEN tokenize_inline_from(s, p + 1)
             ELSE <<m.tok>> \o tokenize_inline_from(s, p + m.len)

tokenize_inline(text) == tokenize_inline_from(text, 1)

\* length of the run of characters other than c that starts at position p
RECURSIVE RunNot(_, _, _)
RunNot(s, p, c) == IF p <= Len(s) /\ s[p] # c THEN 1 + RunNot(s, p + 1, c) ELSE 0

CharAt(s, q) == IF q >= 1 /\ q <= Len(s) THEN s[q] ELSE "EOL"

\* \[([^\]]+)\]\(([^\)]+)\)  matched at position p (p is the '[')
LinkAt(s, p) ==
    LET t == RunNot(s, p + 1, "]")
        u == RunNot(s, p + t + 3, ")")
    IN  [ok   |-> /\ CharAt(s, p) = "[" /\ t >= 1 /\ CharAt(s, p + t + 1) = "]"
                  /\ CharAt(s, p + t + 2) = "(" /\ u >= 1 /\ CharAt(s, p + t + 3 + u) = ")",
         len  |-> t + u + 4,
         text |-> SubSeq(s, p + 1, p + t),
         url  |-> SubSeq(s, p + t + 3, p + t + 2 + u)]

\* !\[([^\]]*)\]\(([^\)]+)\)  matched at position p (p is the '!')
ImageAt(s, p) ==
    LET t == RunNot(s, p + 2, "]")
        u == RunNot(s, p + t + 4, ")")
    IN  [ok   |-> /\ CharAt(s, p) = "!" /\ CharAt(s, p + 1) = "["
                  /\ CharAt(s, p + t + 2) = "]" /\ CharAt(s, p + t + 3) = "("
                  /\ u >= 1 /\ CharAt(s, p + t + 4 + u) = ")",
         len  |-> t + u + 5,
         text |-> SubSeq(s, p + 2, p + t + 1),
         url  |-> SubSeq(s, p + t + 4, p + t + 3 + u)]

\* \[\^(\d+)\]:?  matched at position p
FootnoteAt(s, p) ==
    LET d == RunLen(s, p + 2, {"0", "1", "2", "3", "4", "5", "6", "7", "8", "9"})
    IN  [ok   |-> /\ CharAt(s, p) = "[" /\ CharAt(s, p + 1) = "^" /\ d >= 1
                  /\ CharAt(s, p + 2 + d) = "]",
         len  |-> d + 3 + (IF CharAt(s, p + 3 + d) = ":" THEN 1 ELSE 0),
         text |-> SubSeq(s, p + 2, p + 1 + d),
         url  |-> <<>>]

\* ``[^`]+``|`[^`]+`  matched at position p
CodeSpanAt(s, p) ==
    LET t2 == RunNot(s, p + 2, "BQ")
        t1 == RunNot(s, p + 1, "BQ")
        two == /\ At(s, p, <<"BQ", "BQ">>) /\ t2 >= 1 /\ At(s, p + 2 + t2, <<"BQ", "BQ">>)
        one == /\ CharAt(s, p) = "BQ" /\ t1 >= 1 /\ CharAt(s, p + 1 + t1) = "BQ"
    IN  [ok   |-> two \/ one,
         len  |-> IF two THEN t2 + 4 ELSE t1 + 2,
         text |-> <<>>,
         url  |-> <<>>]

\* Regex::find_iter / captures_iter : the successive non-overlapping matches of
\* a pattern from position p on, each with its span in BYTES (start, end)
RECURSIVE FindIter(_, _, _)
FindIter(kind, s, p) ==
    IF p > Len(s) THEN <<>>
    ELSE LET m == CASE kind = "image"    -> ImageAt(s, p)
                    [] kind = "link"     -> LinkAt(s, p)
                    [] kind = "footnote" -> FootnoteAt(s, p)
                    [] OTHER             -> CodeSpanAt(s, p)
         IN  IF ~m.ok THEN FindIter(kind, s, p + 1)
             ELSE << [start |-> ByteLength(SubSeq(s, 1, p - 1)),
                      end   |-> ByteLength(SubSeq(s, 1, p - 1 + m.len)),
                      pos   |-> p,
                      text  |-> m.text,
                      url   |-> m.url] >>
                  \o FindIter(kind, s, p + m.len)

\* find_code_regions
find_code_regions(line) == FindIter("code", line, 1)

\* u32::MAX in decimal digits
u32_MAX_digits == <<4, 2, 9, 4, 9, 6, 7, 2, 9, 5>>

RECURSIVE StripZeros(_)
StripZeros(ds) == IF ds # <<>> /\ Head(ds) = "0" THEN StripZeros(Tail(ds)) ELSE ds

\* str::parse::<u32>().is_ok() on a run of ASCII digits
ParsesAsU32(ds) ==
    LET d == StripZeros(ds)
        n == Len(u32_MAX_digits)
        v == [i \in 1..Len(d) |-> ParseNat(<<d[i]>>)]
    IN  \/ Len(d) < n
        \/ /\ Len(d) = n
           /\ \/ \A i \in 1..n : v[i] = u32_MAX_digits[i]
              \/ \E i \in 1..n : /\ v[i] < u32_MAX_digits[i]
                                 /\ \A j \in 1..(i - 1) : v[j] = u32_MAX_digits[j]

\* sort_by_key(start) : a stable sort by start offset
RECURSIVE SortByStart(_)
SortByStart(xs) ==
    IF xs = <<>> THEN <<>>
    ELSE LET i == CHOOSE i \in 1..Len(xs) :
                     /\ \A j \in 1..Len(xs) : xs[i].start <= xs[j].start
                     /\ \A j \in 1..(i - 1) : xs[j].start # xs[i].start
         IN  <<xs[i]>> \o SortByStart(SubSeq(xs, 1, i - 1) \o SubSeq(xs, i + 1, Len(xs)))

\* "Remove overlapping extractions (keep first)"
RECURSIVE DropOverlaps(_, _)
DropOverlaps(xs, lastEnd) ==
    IF xs = <<>> THEN <<>>
    ELSE IF lastEnd < 0 \/ Head(xs).start >= lastEnd
         THEN <<Head(xs)>> \o DropOverlaps(Tail(xs), Head(xs).end)
         ELSE DropOverlaps(Tail(xs), lastEnd)

\* &line[a..b] : [ok |-> both offsets are char boundaries in order, s |-> the slice]
SliceBytes(line, a, b) ==
    IF a <= b /\ IsCharBoundary(line, a) /\ IsCharBoundary(line, b)
    THEN [ok |-> TRUE,
          s  |-> SubSeq(line,
                        (CHOOSE k \in 0..Len(line) : ByteLength(SubSeq(line, 1, k)) = a) + 1,
                        CHOOSE k \in 0..Len(line) : ByteLength(SubSeq(line, 1, k)) = b)]
    ELSE [ok |-> FALSE, s |-> <<>>]

\* the last loop of tokenize_with_extractions: the text between the kept
\* extractions is tokenized, each extraction's token is inserted in its place
RECURSIVE InsertExtractions(_, _, _)
InsertExtractions(line, xs, last_end) ==
    IF xs = <<>>
    THEN IF last_end < ByteLength(line)
         THEN LET sl == SliceBytes(line, last_end, ByteLength(line))
              IN  [tokens |-> tokenize_inline(sl.s), panic |-> ~sl.ok]
         ELSE [tokens |-> <<>>, panic |-> FALSE]
    ELSE LET x    == Head(xs)
             sl   == IF x.start > last_end THEN SliceBytes(line, last_end, x.start)
                     ELSE [ok |-> TRUE, s |-> <<>>]
             rest == InsertExtractions(line, Tail(xs), x.end)
         IN  [tokens |-> tokenize_inline(sl.s) \o <<x.token>> \o rest.tokens,
              panic  |-> ~sl.ok \/ rest.panic]

\* Tokenizer::tokenize (tokenize_with_extractions)
tokenize(tk, line) ==
    LET WithTok(ms, Tok(_)) ==
            [i \in 1..Len(ms) |-> [start |-> ms[i].start, end |-> ms[i].end, token |-> Tok(ms[i])]]
        ImageTok(m) == [type |-> "Image", alt |-> m.text, url |-> m.url]
        LinkTok(m)  == [type |-> "Link", text |-> m.text, url |-> m.url]
        FootTok(m)  == [type |-> "Footnote", num |-> ParseNat(m.text)]
        images == IF tk.process_images THEN WithTok(FindIter("image", line, 1), ImageTok) ELSE <<>>
        \* a link match preceded by '!' is part of an image
        NotImage(m) == ~(m.start > 0 /\ CharAt(line, m.pos - 1) = "!")
        links  == IF tk.process_links
                  THEN WithTok(SelectSeq(FindIter("link", line, 1), NotImage), LinkTok)
                  ELSE <<>>
        FitsU32(m) == ParsesAsU32(m.text)
        foots  == WithTok(SelectSeq(FindIter("footnote", line, 1), FitsU32), FootTok)
        code_regions  == find_code_regions(line)
        OutsideCode(x) == ~\E i \in 1..Len(code_regions) :
                              x.start >= code_regions[i].start /\ x.end <= code_regions[i].end
        extractions   == SelectSeq(images \o links \o foots, OutsideCode)
        filtered      == DropOverlaps(SortByStart(extractions), -1)
    IN  InsertExtractions(line, filtered, 0)

-----------------------------------------------------------------------------
(* streamdown-parser/src/inline.rs *)

\* FormatState::new / FormatState::reset  (code_backticks 0 is None)
FormatState_new ==
    [bold |-> FALSE, italic |-> FALSE, underline |-> FALSE, strikeout |-> FALSE,
     code_backticks |-> 0, code_buffer |-> <<>>]

\* FormatState::reset leaving the toggles and the code span as they are
FormatState_reset_none(fs) == fs

\* FormatState::reset
FormatState_reset(fs) ==
    [fs EXCEPT !.bold = FALSE, !.italic = FALSE, !.underline = FALSE, !.strikeout = FALSE,
               !.code_backticks = 0, !.code_buffer = <<>>]

\* InlineParser::emit_formatted
emit_formatted(fs, elements, text) ==
    IF text = <<>> THEN elements
    ELSE Append(elements,
                [type |-> IF fs.bold /\ fs.italic THEN "BoldItalic"
                          ELSE IF fs.bold THEN "Bold"
                          ELSE IF fs.italic THEN "Italic"
                          ELSE IF fs.underline THEN "Underline"
                          ELSE IF fs.strikeout THEN "Strikeout"
                          ELSE "Text",
                 s |-> text])

\* char::is_alphanumeric on the characters of the model
IsAlnum(c) ==
    c \in {"a", "b", "c", "d", "e", "f", "g", "h", "i", "j", "k", "l", "m", "n", "o", "p",
           "q", "r", "s", "t", "u", "v", "w", "x", "y", "z", "A", "B", "C", "D", "E", "F",
           "G", "H", "I", "J", "K", "L", "M", "N", "O", "P", "Q", "R", "S", "T", "U", "V",
           "W", "X", "Y", "Z", "0", "1", "2", "3", "4", "5", "6", "7", "8", "9", "CJK"}

RECURSIVE DigitsOf(_)
DigitsOf(n) == IF n < 10 THEN <<n>> ELSE Append(DigitsOf(n \div 10), n % 10)

\* number_to_superscript : one superscript character per decimal digit
number_to_superscript(num) ==
    LET SUPER == <<"SUP0", "SUP1", "SUP2", "SUP3", "SUP4", "SUP5", "SUP6", "SUP7", "SUP8", "SUP9">>
        ds    == DigitsOf(num)
    IN  [i \in 1..Len(ds) |-> SUPER[ds[i] + 1]]

Repeat(c, n) == [i \in 1..n |-> c]

\* the test of the Underscore arm with only the character before looked at
underscore_in_word_prev(tokens, i) ==
    /\ i > 1 /\ tokens[i - 1].type = "Text" /\ tokens[i - 1].s # <<>>
    /\ IsAlnum(tokens[i - 1].s[Len(tokens[i - 1].s)])

\* the test of the Underscore arm of InlineParser::parse_tokens:
\* prev_char_is_alnum && next_char_is_alnum
underscore_in_word(tokens, i) ==
    LET prev_char_is_alnum ==
            /\ i > 1 /\ tokens[i - 1].type = "Text" /\ tokens[i - 1].s # <<>>
            /\ IsAlnum(tokens[i - 1].s[Len(tokens[i - 1].s)])
        next_char_is_alnum ==
            /\ i + 1 <= Len(tokens) /\ tokens[i + 1].type = "Text"
            /\ tokens[i + 1].s # <<>> /\ IsAlnum(tokens[i + 1].s[1])
    IN  prev_char_is_alnum /\ next_char_is_alnum

\* the arm of a triple marker flipping both toggles in every state
triple_marker_flip(fs, flushed, with, marker) ==
    [fs |-> [fs EXCEPT ![with] = ~@, !.italic = ~@], buffer |-> <<>>, elements |-> flushed]

\* the TripleAsterisk (with = "bold") and TripleUnderscore (with = "underline")
\* arms of InlineParser::parse_tokens, the buffer already flushed
triple_marker(fs, flushed, with, marker) ==
    IF fs[with] /\ fs.italic
    THEN [fs |-> [fs EXCEPT ![with] = FALSE, !.italic = FALSE], buffer |-> <<>>, elements |-> flushed]
    ELSE IF ~fs[with] /\ ~fs.italic
    THEN [fs |-> [fs EXCEPT ![with] = TRUE, !.italic = TRUE], buffer |-> <<>>, elements |-> flushed]
    ELSE [fs |-> fs, buffer |-> marker, elements |-> flushed]

\* the body of the while loop of InlineParser::parse_tokens for token i;
\* st = [fs, buffer, elements]
parse_token(tokens, i, st) ==
    LET token   == tokens[i]
        fs      == st.fs
        flushed == emit_formatted(fs, st.elements, st.buffer)
        \* "flush the buffer, then change the toggles"
        Toggle(fs2) == [fs |-> fs2, buffer |-> <<>>, elements |-> flushed]
    IN
    IF fs.code_backticks # 0
    THEN IF token.type = "Backticks" /\ token.n = fs.code_backticks
         THEN LET code == fs.code_buffer
                  c1   == IF code # <<>> /\ Head(code) = " " THEN Tail(code) ELSE code
                  c2   == IF c1 # <<>> /\ c1[Len(c1)] = " " THEN SubSeq(c1, 1, Len(c1) - 1) ELSE c1
              IN  [st EXCEPT !.elements = Append(@, [type |-> "Code", s |-> c2]),
                             !.fs.code_buffer = <<>>,
                             !.fs.code_backticks = 0]
         ELSE [st EXCEPT !.fs.code_buffer =
                   @ \o (IF token.type = "Text" THEN token.s
                         ELSE IF token.type = "Backticks" THEN Repeat("BQ", token.n)
                         ELSE marker_str(token))]
    ELSE CASE token.type = "Text" -> [st EXCEPT !.buffer = @ \o token.s]
           [] token.type = "Backticks" -> Toggle([fs EXCEPT !.code_backticks = token.n])
           [] token.type = "TripleAsterisk" ->
                triple_marker(fs, flushed, "bold", <<"*", "*", "*">>)
           [] token.type = "DoubleAsterisk" -> Toggle([fs EXCEPT !.bold = ~@])
           [] token.type = "Asterisk" -> Toggle([fs EXCEPT !.italic = ~@])
           [] token.type = "DoubleAsteriskUnderscore" ->
                Toggle([fs EXCEPT !.bold = TRUE, !.italic = ~@])
           [] token.type = "UnderscoreDoubleAsterisk" ->
                Toggle([fs EXCEPT !.italic = FALSE, !.bold = FALSE])
           [] token.type = "TripleUnderscore" ->
                triple_marker(fs, flushed, "underline", <<"_", "_", "_">>)
           [] token.type = "DoubleUnderscore" -> Toggle([fs EXCEPT !.underline = ~@])
           [] token.type = "Underscore" ->
                IF underscore_in_word(tokens, i)
                THEN [st EXCEPT !.buffer = Append(@, "_")]
                ELSE Toggle([fs EXCEPT !.italic = ~@])
           [] token.type = "DoubleTilde" -> Toggle([fs EXCEPT !.strikeout = ~@])
           [] token.type = "Link" ->
                [fs |-> fs, buffer |-> <<>>,
                 elements |-> Append(flushed, [type |-> "Link", text |-> token.text, url |-> token.url])]
           [] token.type = "Image" ->
                [fs |-> fs, buffer |-> <<>>,
                 elements |-> Append(flushed, [type |-> "Image", alt |-> token.alt, url |-> token.url])]
           [] OTHER ->  \* Footnote
                [fs |-> fs, buffer |-> <<>>,
                 elements |-> Append(flushed, [type |-> "Footnote", s |-> number_to_superscript(token.num)])]

RECURSIVE parse_tokens_loop(_, _, _)
parse_tokens_loop(tokens, i, st) ==
    IF i > Len(tokens) THEN st
    ELSE parse_tokens_loop(tokens, i + 1, parse_token(tokens, i, st))

\* InlineParser::parse_tokens from the format state fs0 : [elements, state],
\* the elements returned and the format state left in the parser
parse_tokens(fs0, tokens) ==
    With(parse_tokens_loop(tokens, 1, [fs |-> fs0, buffer |-> <<>>, elements |-> <<>>]),
         LAMBDA st :
             With(emit_formatted(st.fs, st.elements, st.buffer), LAMBDA e1 :
                  [elements |-> IF st.fs.code_backticks # 0 /\ st.fs.code_buffer # <<>>
                                THEN Append(e1, [type |-> "Code", s |-> st.fs.code_buffer])
                                ELSE e1,
                   state    |-> FormatState_reset(
                                    IF st.fs.code_backticks # 0
                                    THEN [st.fs EXCEPT !.code_buffer = <<>>, !.code_backticks = 0]
                                    ELSE st.fs)]))

\* InlineParser::new
InlineParser_new ==
    [tokenizer |-> [process_links |-> TRUE, process_images |-> TRUE],
     state |-> FormatState_new,
     process_links |-> TRUE, process_images |-> TRUE]

\* InlineParser::parse : [elements, panic, ip], ip the parser after the call
InlineParser_parse(ip, line) ==
    With(tokenize(ip.tokenizer, line), LAMBDA t :
         With(parse_tokens(ip.state, t.tokens), LAMBDA r :
              [elements |-> r.elements, panic |-> t.panic,
               ip |-> [ip EXCEPT !.state = r.state]]))

-----------------------------------------------------------------------------
(* streamdown-core/src/state.rs : ParseState                                *)
(* Only the fields the parser reads are kept.  code_language, code_gen,     *)
(* code_first_line, code_buffer, code_indent and list_indent_text are       *)
(* written by the parser but never read by it, and are left out.            *)

None == [is_some |-> FALSE, v |-> 0]

Some(x) == [is_some |-> TRUE, v |-> x]

\* ParseState::new
ParseState_new ==
    [last_line_empty      |-> TRUE,
     first_indent         |-> None,
     ordered_list_numbers |-> <<>>,
     list_item_stack      |-> <<>>,
     in_list              |-> FALSE,
     in_code              |-> "None",
     in_table             |-> "None",
     block_depth          |-> 0,
     block_type           |-> "None",
     links                |-> TRUE,
     images               |-> TRUE,
     code_spaces          |-> FALSE]

is_in_code(st) == st.in_code # "None"

Front(q) == SubSeq(q, 1, Len(q) - 1)

Last(q) == q[Len(q)]

\* push_list with a counter pushed for every level, whatever its type
push_list_counting(st, indent, list_type) ==
    [st EXCEPT !.list_item_stack = Append(@, [indent |-> indent, type |-> list_type]),
               !.ordered_list_numbers = Append(@, 1),
               !.in_list = TRUE]

\* ParseState::push_list
push_list(st, indent, list_type) ==
    [st EXCEPT !.list_item_stack = Append(@, [indent |-> indent, type |-> list_type]),
               !.ordered_list_numbers = IF list_type = "Ordered" THEN Append(@, 1) ELSE @,
               !.in_list = TRUE]

\* ParseState::pop_list  (Vec::pop on an empty vector does nothing)
pop_list(st) ==
    IF st.list_item_stack = <<>> THEN [st EXCEPT !.in_list = FALSE]
    ELSE [st EXCEPT !.list_item_stack = Front(@),
                    !.ordered_list_numbers =
                        IF Last(st.list_item_stack).type = "Ordered" /\ @ # <<>>
                        THEN Front(@) ELSE @,
                    !.in_list = Len(st.list_item_stack) > 1]

\* ParseState::next_list_number : [st, ret]  (ret is an Option<usize>)
next_list_number(st) ==
    IF st.ordered_list_numbers = <<>> THEN [st |-> st, ret |-> None]
    ELSE [st  |-> [st EXCEPT !.ordered_list_numbers[Len(st.ordered_list_numbers)] = @ + 1],
          ret |-> Some(Last(st.ordered_list_numbers))]

\* ParseState::enter_code_block
enter_code_block(st, code_type) == [st EXCEPT !.in_code = code_type]

\* ParseState::exit_code_block
exit_code_block(st) == [st EXCEPT !.in_code = "None"]

\* ParseState::enter_block
enter_block(st, block_type) ==
    [st EXCEPT !.block_depth = @ + 1, !.block_type = block_type]

\* ParseState::exit_block
exit_block(st) ==
    LET d == IF st.block_depth > 0 THEN st.block_depth - 1 ELSE st.block_depth
    IN  [st EXCEPT !.block_depth = d,
                   !.block_type = IF d = 0 THEN "None" ELSE @]

-----------------------------------------------------------------------------
(* streamdown-parser/src/lib.rs : Parser                                    *)
(* An operation takes the parser `self` (a record of its fields, with       *)
(* `events` the buffer self.events and `panicked` whether the call has      *)
(* panicked) and gives the parser after it; a try_parse_* gives [self, ret].*)

\* ListBullet::parse(s).unwrap_or(ListBullet::Dash)
ListBullet_parse(b) ==
    LET t == Trim(b)
    IN  IF Len(t) > 1 /\ t[1] = "+" /\ \A i \in 2..Len(t) : t[i] = "-"
        THEN [kind |-> "PlusExpand", n |-> 0]
        ELSE IF t = <<"-">> THEN [kind |-> "Dash", n |-> 0]
        ELSE IF t = <<"*">> THEN [kind |-> "Asterisk", n |-> 0]
        ELSE IF t = <<"+">> THEN [kind |-> "Plus", n |-> 0]
        ELSE IF t # <<>> /\ Last(t) = "."
        THEN LET dots == SetMax({k \in 0..Len(t) : \A j \in (Len(t) - k + 1)..Len(t) : t[j] = "."})
                 num  == SubSeq(t, 1, Len(t) - dots)
             IN  IF num # <<>> /\ \A j \in 1..Len(num) : IsDigit(num[j])
                 THEN [kind |-> "Ordered", n |-> ParseNat(num)]
                 ELSE [kind |-> "Dash", n |-> 0]
        ELSE [kind |-> "Dash", n |-> 0]

Push(self, ev) == [self EXCEPT !.events = Append(@, ev)]

\* Parser::new
Parser_new ==
    [state              |-> ParseState_new,
     inline_parser      |-> InlineParser_new,
     code_fence         |-> <<>>,
     table_state        |-> "None",
     events             |-> <<>>,
     prev_was_empty     |-> FALSE,
     list_pending_close |-> FALSE,
     panicked           |-> FALSE]

\* strip_first_indent with the indent measured and cut in bytes (&line[first_indent..])
strip_first_indent_bytes(self, line) ==
    LET ws == ByteLength(SubSeq(line, 1, LeadingWs(line)))
        s1 == IF ~self.state.first_indent.is_some /\ Trim(line) # <<>>
              THEN [self EXCEPT !.state.first_indent = Some(ws)]
              ELSE self
        fi == s1.state.first_indent
    IN  IF fi.is_some /\ fi.v > 0 /\ ws >= fi.v
        THEN IF IsCharBoundary(line, fi.v)
             THEN [self |-> s1, ret |-> SliceFrom(line, fi.v)]
             ELSE [self |-> [s1 EXCEPT !.panicked = TRUE], ret |-> line]
        ELSE [self |-> s1, ret |-> line]

\* strip_first_indent taking the indent of every non-blank line as the new first_indent
strip_first_indent_latest(self, line) ==
    LET s1 == IF Trim(line) # <<>>
              THEN [self EXCEPT !.state.first_indent = Some(LeadingWs(line))]
              ELSE self
        fi == s1.state.first_indent
    IN  [self |-> s1,
         ret  |-> IF fi.is_some /\ fi.v > 0 /\ LeadingWs(line) >= fi.v
                  THEN SkipChars(line, fi.v)
                  ELSE line]

\* strip_first_indent removing up to first_indent whitespace characters, also
\* from a line that has fewer
strip_first_indent_upto(self, line) ==
    LET s1 == IF ~self.state.first_indent.is_some /\ Trim(line) # <<>>
              THEN [self EXCEPT !.state.first_indent = Some(LeadingWs(line))]
              ELSE self
        fi == s1.state.first_indent
    IN  [self |-> s1,
         ret  |-> IF fi.is_some /\ fi.v > 0
                  THEN SkipChars(line, IF LeadingWs(line) >= fi.v THEN fi.v ELSE LeadingWs(line))
                  ELSE line]

\* Parser::strip_first_indent : [self, ret]
strip_first_indent(self, line) ==
    LET s1 == IF ~self.state.first_indent.is_some /\ Trim(line) # <<>>
              THEN [self EXCEPT !.state.first_indent = Some(LeadingWs(line))]
              ELSE self
        fi == s1.state.first_indent
    IN  [self |-> s1,
         ret  |-> IF fi.is_some /\ fi.v > 0 /\ LeadingWs(line) >= fi.v
                  THEN SkipChars(line, fi.v)
                  ELSE line]

\* the loop  while self.state.in_list { self.state.pop_list(); }
RECURSIVE pop_all(_)
pop_all(st) == IF st.in_list THEN pop_all(pop_list(st)) ELSE st

\* Parser::exit_list_context
exit_list_context(self) ==
    Push([self EXCEPT !.state = pop_all(@)], [type |-> "ListEnd"])

\* the loop  while self.state.block_depth > 0 { self.state.exit_block(); }
RECURSIVE exit_all_blocks(_)
exit_all_blocks(st) == IF st.block_depth > 0 THEN exit_all_blocks(exit_block(st)) ELSE st

\* the three places that end a table: table_state = None, in_table = None, TableEnd
end_table(self) ==
    IF self.table_state # "None"
    THEN Push([self EXCEPT !.table_state = "None", !.state.in_table = "None"],
              [type |-> "TableEnd"])
    ELSE self

\* handle_empty_line closing an open list at once instead of deferring the close
handle_empty_line_closing(self) ==
    IF self.prev_was_empty THEN [self EXCEPT !.events = <<>>]
    ELSE LET s1 == [self EXCEPT !.prev_was_empty = TRUE, !.state.last_line_empty = TRUE]
             s2 == IF s1.state.block_depth > 0 /\ s1.state.block_type = "Quote"
                   THEN Push([s1 EXCEPT !.state = exit_all_blocks(@)], [type |-> "BlockquoteEnd"])
                   ELSE s1
             s3 == IF s2.state.in_list THEN exit_list_context(s2) ELSE s2
         IN  Push(end_table(s3), [type |-> "EmptyLine"])

\* handle_empty_line without the collapsing of consecutive empty lines
handle_empty_line_each(self) ==
    LET s1 == [self EXCEPT !.prev_was_empty = TRUE, !.state.last_line_empty = TRUE]
        s2 == IF s1.state.block_depth > 0 /\ s1.state.block_type = "Quote"
              THEN Push([s1 EXCEPT !.state = exit_all_blocks(@)], [type |-> "BlockquoteEnd"])
              ELSE s1
        s3 == IF s2.state.in_list THEN [s2 EXCEPT !.list_pending_close = TRUE] ELSE s2
    IN  Push(end_table(s3), [type |-> "EmptyLine"])

\* handle_empty_line deferring a list close whether or not a list is open
handle_empty_line_deferring(self) ==
    IF self.prev_was_empty THEN [self EXCEPT !.events = <<>>]
    ELSE LET s1 == [self EXCEPT !.prev_was_empty = TRUE, !.state.last_line_empty = TRUE]
             s2 == IF s1.state.block_depth > 0 /\ s1.state.block_type = "Quote"
                   THEN Push([s1 EXCEPT !.state = exit_all_blocks(@)], [type |-> "BlockquoteEnd"])
                   ELSE s1
             s3 == [s2 EXCEPT !.list_pending_close = TRUE]
         IN  Push(end_table(s3), [type |-> "EmptyLine"])

\* Parser::handle_empty_line  (the events it returns are left in self.events)
handle_empty_line(self) ==
    IF self.prev_was_empty THEN [self EXCEPT !.events = <<>>]
    ELSE LET s1 == [self EXCEPT !.prev_was_empty = TRUE, !.state.last_line_empty = TRUE]
             s2 == IF s1.state.block_depth > 0 /\ s1.state.block_type = "Quote"
                   THEN Push([s1 EXCEPT !.state = exit_all_blocks(@)], [type |-> "BlockquoteEnd"])
                   ELSE s1
             s3 == IF s2.state.in_list THEN [s2 EXCEPT !.list_pending_close = TRUE] ELSE s2
         IN  Push(end_table(s3), [type |-> "EmptyLine"])

\* Parser::resolve_pending_list_close
resolve_pending_list_close(self) ==
    IF self.list_pending_close
    THEN LET s1 == [self EXCEPT !.list_pending_close = FALSE]
         IN  IF s1.state.in_list THEN exit_list_context(s1) ELSE s1
    ELSE self

\* Parser::exit_block_contexts
exit_block_contexts(self) ==
    end_table(IF self.state.in_list THEN exit_list_context(self) ELSE self)

\* Parser::parse_inline_content
parse_inline_content(self, line) ==
    With(InlineParser_parse(self.inline_parser, line), LAMBDA r :
         [self EXCEPT !.events = (@ \o [i \in 1..Len(r.elements) |->
                                           IF r.elements[i].type = "Code"
                                           THEN [type |-> "InlineCode", s |-> r.elements[i].s]
                                           ELSE r.elements[i]])
                                 \o << [type |-> "Newline"] >>,
                      !.inline_parser = r.ip,
                      !.panicked = @ \/ r.panic])

\* parse_in_code_block closing the block on a closing fence of any family
parse_in_code_block_any(self, line) ==
    LET caps == CODE_FENCE_END_RE(line)
    IN  IF self.code_fence # <<>> /\ caps.ok
        THEN [Push(self, [type |-> "CodeBlockEnd"])
                 EXCEPT !.state = exit_code_block(@), !.code_fence = <<>>]
        ELSE IF self.state.in_code = "Spaces" /\ LeadingWs(line) < 4 /\ Trim(line) # <<>>
        THEN parse_inline_content(
                 [Push(self, [type |-> "CodeBlockEnd"]) EXCEPT !.state = exit_code_block(@)],
                 line)
        ELSE Push(self, [type |-> "CodeBlockLine",
                         s |-> IF self.state.in_code = "Spaces" THEN SkipChars(line, 4) ELSE line])

\* Parser::parse_in_code_block
parse_in_code_block(self, line) ==
    LET caps      == CODE_FENCE_END_RE(line)
        fence     == self.code_fence
        end_fence == caps.fence
        matches   == \/ Head(fence) = "BQ" /\ Head(end_fence) = "BQ"
                     \/ Head(fence) = "~" /\ Head(end_fence) = "~"
                     \/ fence = <<"<", "p", "r", "e", ">">> /\ end_fence = <<"<", "/", "p", "r", "e", ">">>
    IN  IF fence # <<>> /\ caps.ok /\ matches
        THEN [Push(self, [type |-> "CodeBlockEnd"])
                 EXCEPT !.state = exit_code_block(@), !.code_fence = <<>>]
        ELSE IF self.state.in_code = "Spaces" /\ LeadingWs(line) < 4 /\ Trim(line) # <<>>
        THEN parse_inline_content(
                 [Push(self, [type |-> "CodeBlockEnd"]) EXCEPT !.state = exit_code_block(@)],
                 line)
        ELSE Push(self, [type |-> "CodeBlockLine",
                         s |-> IF self.state.in_code = "Spaces" THEN SkipChars(line, 4) ELSE line])

\* Parser::try_parse_code_fence : [self, ret]
try_parse_code_fence(self, line) ==
    LET caps == CODE_FENCE_RE(line)
    IN  IF caps.ok
        THEN [self |-> Push([self EXCEPT !.code_fence = caps.fence,
                                         !.state = enter_code_block(@, "Backtick")],
                            [type |-> "CodeBlockStart",
                             language |-> IF caps.lang # <<>> THEN Some(caps.lang) ELSE [is_some |-> FALSE, v |-> <<>>],
                             indent |-> LeadingWs(line)]),
              ret  |-> TRUE]
        ELSE [self |-> self, ret |-> FALSE]

\* try_parse_space_code opening a block inside an open list as well
try_parse_space_code_in_list(self, line, was_prev_empty) ==
    IF ~self.state.code_spaces THEN [self |-> self, ret |-> FALSE]
    ELSE IF ~was_prev_empty THEN [self |-> self, ret |-> FALSE]
    ELSE IF SPACE_CODE_RE(line)
    THEN [self |-> Push(Push([self EXCEPT !.state = enter_code_block(@, "Spaces")],
                             [type |-> "CodeBlockStart",
                              language |-> Some(<<"t", "e", "x", "t">>), indent |-> 4]),
                        [type |-> "CodeBlockLine", s |-> SkipChars(line, 4)]),
          ret  |-> TRUE]
    ELSE [self |-> self, ret |-> FALSE]

\* Parser::try_parse_space_code : [self, ret]
try_parse_space_code(self, line, was_prev_empty) ==
    IF ~self.state.code_spaces THEN [self |-> self, ret |-> FALSE]
    ELSE IF ~was_prev_empty \/ self.state.in_list THEN [self |-> self, ret |-> FALSE]
    ELSE IF SPACE_CODE_RE(line)
    THEN [self |-> Push(Push([self EXCEPT !.state = enter_code_block(@, "Spaces")],
                             [type |-> "CodeBlockStart",
                              language |-> Some(<<"t", "e", "x", "t">>), indent |-> 4]),
                        [type |-> "CodeBlockLine", s |-> SkipChars(line, 4)]),
          ret  |-> TRUE]
    ELSE [self |-> self, ret |-> FALSE]

ThinkEndMarkers ==
    { <<"<", "/", "t", "h", "i", "n", "k", ">">>,
      <<"<", "/", "t", "h", "i", "n", "k", "RTRI">>,
      <<"LTRI", "/", "t", "h", "i", "n", "k", "RTRI">> }

\* Parser::parse_in_think_block
parse_in_think_block(self, line) ==
    IF Trim(line) \in ThinkEndMarkers
    THEN [Push(self, [type |-> "ThinkBlockEnd"]) EXCEPT !.state = exit_block(@)]
    ELSE Push(self, [type |-> "ThinkBlockLine", s |-> line])

\* n times ParseState::enter_block / ParseState::exit_block
RECURSIVE enter_blocks(_, _, _)
enter_blocks(st, block_type, n) ==
    IF n <= 0 THEN st ELSE enter_blocks(enter_block(st, block_type), block_type, n - 1)

RECURSIVE exit_blocks(_, _)
exit_blocks(st, n) == IF n <= 0 THEN st ELSE exit_blocks(exit_block(st), n - 1)

\* one BlockquoteStart per level entered, from depth d + 1 up to depth n
RECURSIVE quote_starts(_, _, _)
quote_starts(self, d, n) ==
    IF d >= n THEN self
    ELSE quote_starts(Push([self EXCEPT !.state = enter_block(@, "Quote")],
                           [type |-> "BlockquoteStart", depth |-> d + 1]),
                      d + 1, n)

\* try_parse_block with a BlockquoteStart for every level a line adds
try_parse_block_each(self, line) ==
    LET caps    == BLOCK_RE(line)
        marker  == caps.marker
        content == caps.content
        depth   == CountChar(marker, ">")
        bd      == self.state.block_depth
    IN  IF caps.ok /\ Contains(marker, Think5)
        THEN IF Contains(marker, <<"/">>)
             THEN [self |-> IF self.state.block_type = "Think"
                            THEN [Push(self, [type |-> "ThinkBlockEnd"])
                                     EXCEPT !.state = exit_block(@)]
                            ELSE self,
                   ret  |-> TRUE]
             ELSE LET s1 == Push([self EXCEPT !.state = enter_block(@, "Think")],
                                 [type |-> "ThinkBlockStart"])
                  IN  [self |-> IF Trim(content) # <<>>
                                THEN Push(s1, [type |-> "ThinkBlockLine", s |-> content])
                                ELSE s1,
                       ret  |-> TRUE]
        ELSE IF caps.ok /\ depth > 0
        THEN LET s1 == IF depth > bd
                       THEN quote_starts(self, bd, depth)
                       ELSE [self EXCEPT !.state = exit_blocks(@, bd - depth)]
             IN  [self |-> Push(s1, [type |-> "BlockquoteLine", s |-> content]),
                  ret  |-> TRUE]
        ELSE [self |-> IF bd > 0 /\ self.state.block_type = "Quote"
                       THEN Push([self EXCEPT !.state = exit_all_blocks(@)],
                                 [type |-> "BlockquoteEnd"])
                       ELSE self,
              ret  |-> FALSE]

\* try_parse_block with a depth decrease announced by a BlockquoteEnd
try_parse_block_end(self, line) ==
    LET caps    == BLOCK_RE(line)
        marker  == caps.marker
        content == caps.content
        depth   == CountChar(marker, ">")
        bd      == self.state.block_depth
    IN  IF caps.ok /\ Contains(marker, Think5)
        THEN IF Contains(marker, <<"/">>)
             THEN [self |-> IF self.state.block_type = "Think"
                            THEN [Push(self, [type |-> "ThinkBlockEnd"])
                                     EXCEPT !.state = exit_block(@)]
                            ELSE self,
                   ret  |-> TRUE]
             ELSE LET s1 == Push([self EXCEPT !.state = enter_block(@, "Think")],
                                 [type |-> "ThinkBlockStart"])
                  IN  [self |-> IF Trim(content) # <<>>
                                THEN Push(s1, [type |-> "ThinkBlockLine", s |-> content])
                                ELSE s1,
                       ret  |-> TRUE]
        ELSE IF caps.ok /\ depth > 0
        THEN LET s1 == IF depth > bd
                       THEN Push([self EXCEPT !.state = enter_blocks(@, "Quote", depth - bd)],
                                 [type |-> "BlockquoteStart", depth |-> depth])
                       ELSE IF depth < bd
                       THEN Push([self EXCEPT !.state = exit_blocks(@, bd - depth)],
                                 [type |-> "BlockquoteEnd"])
                       ELSE self
             IN  [self |-> Push(s1, [type |-> "BlockquoteLine", s |-> content]),
                  ret  |-> TRUE]
        ELSE [self |-> IF bd > 0 /\ self.state.block_type = "Quote"
                       THEN Push([self EXCEPT !.state = exit_all_blocks(@)],
                                 [type |-> "BlockquoteEnd"])
                       ELSE self,
              ret  |-> FALSE]

\* Parser::try_parse_block : [self, ret]
try_parse_block(self, line) ==
    LET caps    == BLOCK_RE(line)
        marker  == caps.marker
        content == caps.content
        depth   == CountChar(marker, ">")
        bd      == self.state.block_depth
    IN  IF caps.ok /\ Contains(marker, Think5)
        THEN IF Contains(marker, <<"/">>)
             THEN [self |-> IF self.state.block_type = "Think"
                            THEN [Push(self, [type |-> "ThinkBlockEnd"])
                                     EXCEPT !.state = exit_block(@)]
                            ELSE self,
                   ret  |-> TRUE]
             ELSE LET s1 == Push([self EXCEPT !.state = enter_block(@, "Think")],
                                 [type |-> "ThinkBlockStart"])
                  IN  [self |-> IF Trim(content) # <<>>
                                THEN Push(s1, [type |-> "ThinkBlockLine", s |-> content])
                                ELSE s1,
                       ret  |-> TRUE]
        ELSE IF caps.ok /\ depth > 0
        THEN LET s1 == IF depth > bd
                       THEN Push([self EXCEPT !.state = enter_blocks(@, "Quote", depth - bd)],
                                 [type |-> "BlockquoteStart", depth |-> depth])
                       ELSE [self EXCEPT !.state = exit_blocks(@, bd - depth)]
             IN  [self |-> Push(s1, [type |-> "BlockquoteLine", s |-> content]),
                  ret  |-> TRUE]
        ELSE [self |-> IF bd > 0 /\ self.state.block_type = "Quote"
                       THEN Push([self EXCEPT !.state = exit_all_blocks(@)],
                                 [type |-> "BlockquoteEnd"])
                       ELSE self,
              ret  |-> FALSE]

\* Parser::try_parse_heading : [self, ret]
try_parse_heading(self, line) ==
    LET caps == HEADING_RE(line)
    IN  IF caps.ok
        THEN [self |-> Push(self, [type |-> "Heading",
                                   level |-> IF caps.hashes < 6 THEN caps.hashes ELSE 6,
                                   content |-> caps.content]),
              ret  |-> TRUE]
        ELSE [self |-> self, ret |-> FALSE]

\* Parser::try_parse_hr : [self, ret]
try_parse_hr(self, line) ==
    IF HR_RE(Trim(line))
    THEN [self |-> Push(self, [type |-> "HorizontalRule"]), ret |-> TRUE]
    ELSE [self |-> self, ret |-> FALSE]

\* the loop of try_parse_list_item that pops the levels indented deeper than the item
RECURSIVE pop_deeper(_, _)
pop_deeper(st, indent) ==
    IF st.list_item_stack # <<>> /\ Last(st.list_item_stack).indent > indent
    THEN pop_deeper(pop_list(st), indent)
    ELSE st

\* try_parse_list_item from "Push new level" on: st1 is the state after the pops
list_item_from(self, caps, bullet, st1) ==
    LET indent    == Len(caps.indent)
        list_type == IF bullet.kind = "Ordered" THEN "Ordered" ELSE "Bullet"
        need_push == st1.list_item_stack = <<>> \/ indent > Last(st1.list_item_stack).indent
    IN  With(IF need_push THEN push_list(st1, indent, list_type) ELSE st1, LAMBDA st2 :
        With(next_list_number(st2), LAMBDA nn :
             Push([self EXCEPT !.state = IF bullet.kind = "Ordered" THEN nn.st ELSE st2],
                  [type |-> "ListItem", indent |-> indent,
                   bullet |-> IF bullet.kind = "Ordered"
                              THEN [kind |-> "Ordered",
                                    n |-> IF nn.ret.is_some THEN nn.ret.v ELSE 1]
                              ELSE bullet,
                   content |-> caps.content])))

\* Parser::try_parse_list_item : [self, ret]
try_parse_list_item(self, line) ==
    With(LIST_ITEM_RE(line), LAMBDA caps :
         IF caps.ok
         THEN [self |-> list_item_from(self, caps, ListBullet_parse(caps.bullet),
                                       pop_deeper(self.state, Len(caps.indent))),
               ret  |-> TRUE]
         ELSE [self |-> self, ret |-> FALSE])

\* try_parse_table taking a separator row in the Body phase as well
try_parse_table_sep_any(self, line) ==
    LET caps  == TABLE_ROW_RE(line)
        inner == caps.inner
        parts == Split(inner, "|")
        cells == [i \in 1..Len(parts) |-> Trim(parts[i])]
    IN  IF caps.ok
        THEN IF TABLE_SEP_RE(inner) /\ self.table_state # "None"
             THEN [self |-> Push([self EXCEPT !.table_state = "Body", !.state.in_table = "Body"],
                                 [type |-> "TableSeparator"]),
                   ret  |-> TRUE]
             ELSE [self |-> CASE self.table_state = "None" ->
                                   Push([self EXCEPT !.table_state = "Header",
                                                     !.state.in_table = "Header"],
                                        [type |-> "TableHeader", cells |-> cells])
                              [] self.table_state = "Header" ->
                                   Push(self, [type |-> "TableHeader", cells |-> cells])
                              [] OTHER ->
                                   Push(self, [type |-> "TableRow", cells |-> cells]),
                   ret  |-> TRUE]
        ELSE [self |-> end_table(self), ret |-> FALSE]

\* Parser::try_parse_table : [self, ret]
try_parse_table(self, line) ==
    LET caps  == TABLE_ROW_RE(line)
        inner == caps.inner
        parts == Split(inner, "|")
        cells == [i \in 1..Len(parts) |-> Trim(parts[i])]
    IN  IF caps.ok
        THEN IF TABLE_SEP_RE(inner) /\ self.table_state = "Header"
             THEN [self |-> Push([self EXCEPT !.table_state = "Body", !.state.in_table = "Body"],
                                 [type |-> "TableSeparator"]),
                   ret  |-> TRUE]
             ELSE [self |-> CASE self.table_state = "None" ->
                                   Push([self EXCEPT !.table_state = "Header",
                                                     !.state.in_table = "Header"],
                                        [type |-> "TableHeader", cells |-> cells])
                              [] self.table_state = "Header" ->
                                   Push(self, [type |-> "TableHeader", cells |-> cells])
                              [] OTHER ->
                                   Push(self, [type |-> "TableRow", cells |-> cells]),
                   ret  |-> TRUE]
        ELSE [self |-> end_table(self), ret |-> FALSE]

\* one arm of the if / else-if chain of parse_line: r = [self, matched] is the
\* outcome of the matchers tried so far, and try runs only if none has matched
or_try(r, try(_, _), line, as) ==
    IF r.matched # "None" THEN r
    ELSE With(try(r.self, line), LAMBDA t :
              [self |-> t.self, matched |-> IF t.ret THEN as ELSE "None"])

\* "Try block-level constructs in order"
match_line(self, line) ==
    or_try(or_try(or_try(or_try(or_try(or_try(
        [self |-> self, matched |-> "None"],
        try_parse_code_fence, line, "OtherConstruct"),
        try_parse_block, line, "OtherConstruct"),
        try_parse_heading, line, "OtherConstruct"),
        try_parse_hr, line, "OtherConstruct"),
        try_parse_list_item, line, "ListItem"),
        try_parse_table, line, "OtherConstruct")

\* the end of parse_line: the pending list close, then the plain text
parse_matched(m, line) ==
    With(IF m.matched = "ListItem"
         THEN [m.self EXCEPT !.list_pending_close = FALSE]
         ELSE resolve_pending_list_close(m.self),
         LAMBDA s7 :
             IF m.matched = "None"
             THEN parse_inline_content(exit_block_contexts(s7), line)
             ELSE s7)

\* Parser::parse_line  (the events it returns are left in self.events)
parse_line(self0, line) ==
    LET self == [self0 EXCEPT !.events = <<>>]
    IN  IF is_in_code(self.state) THEN parse_in_code_block(self, line)
        ELSE IF self.state.block_type = "Think" THEN parse_in_think_block(self, line)
        ELSE IF Trim(line) = <<>> THEN handle_empty_line(self)
        ELSE
        With(try_parse_space_code(
                 [self EXCEPT !.prev_was_empty = FALSE, !.state.last_line_empty = FALSE],
                 line, self.prev_was_empty),
             LAMBDA sc :
                 IF sc.ret THEN resolve_pending_list_close(sc.self)
                 ELSE With(strip_first_indent(sc.self, line), LAMBDA si :
                           parse_matched(match_line(si.self, si.ret), si.ret)))

\* finalize announcing the end of the list without leaving it
finalize_in_list(self0) ==
    LET s0 == [self0 EXCEPT !.events = <<>>]
        s1 == IF is_in_code(s0.state)
              THEN [Push(s0, [type |-> "CodeBlockEnd"])
                       EXCEPT !.state = exit_code_block(@), !.code_fence = <<>>]
              ELSE s0
        s2 == IF s1.state.block_type = "Think"
              THEN [Push(s1, [type |-> "ThinkBlockEnd"]) EXCEPT !.state = exit_block(@)]
              ELSE s1
        s3 == IF s2.state.block_depth > 0
              THEN [Push(s2, [type |-> "BlockquoteEnd"]) EXCEPT !.state = exit_all_blocks(@)]
              ELSE s2
        s4 == [s3 EXCEPT !.list_pending_close = FALSE]
        s5 == IF s4.state.in_list THEN Push(s4, [type |-> "ListEnd"]) ELSE s4
    IN  end_table(s5)

\* Parser::finalize  (the events it returns are left in self.events)
finalize(self0) ==
    LET s0 == [self0 EXCEPT !.events = <<>>]
        s1 == IF is_in_code(s0.state)
              THEN [Push(s0, [type |-> "CodeBlockEnd"])
                       EXCEPT !.state = exit_code_block(@), !.code_fence = <<>>]
              ELSE s0
        s2 == IF s1.state.block_type = "Think"
              THEN [Push(s1, [type |-> "ThinkBlockEnd"]) EXCEPT !.state = exit_block(@)]
              ELSE s1
        s3 == IF s2.state.block_depth > 0
              THEN [Push(s2, [type |-> "BlockquoteEnd"]) EXCEPT !.state = exit_all_blocks(@)]
              ELSE s2
        s4 == [s3 EXCEPT !.list_pending_close = FALSE]
        s5 == IF s4.state.in_list THEN exit_list_context(s4) ELSE s4
    IN  end_table(s5)

\* str::lines with every "LF" taken as the end of a line, the "CR" before it kept
str_lines_lf(s) ==
    IF s = <<>> THEN <<>>
    ELSE IF Last(s) = "LF" THEN Split(Front(s), "LF") ELSE Split(s, "LF")

\* str::lines : the pieces that end at each "LF" and the rest after the last
\* one if it is not empty (split_inclusive), each without its "LF" and
\* without the "CR" before that "LF"
RECURSIVE str_lines(_)
str_lines(s) ==
    IF s = <<>> THEN <<>>
    ELSE IF \A i \in 1..Len(s) : s[i] # "LF" THEN <<s>>
    ELSE LET i     == SetMin({j \in 1..Len(s) : s[j] = "LF"})
             piece == SubSeq(s, 1, i - 1)
         IN  << IF piece # <<>> /\ Last(piece) = "CR" THEN Front(piece) ELSE piece >>
             \o str_lines(SubSeq(s, i + 1, Len(s)))

\* the loop of parse_document: [self, all_events, last_blank] after the lines ls
RECURSIVE parse_lines(_, _, _, _)
parse_lines(self, ls, all_events, lb) ==
    IF ls = <<>> THEN [self |-> self, all_events |-> all_events, last_blank |-> lb]
    ELSE With(parse_line(self, Head(ls)), LAMBDA s1 :
              parse_lines(s1, Tail(ls), all_events \o s1.events,
                          Trim(Head(ls)) = <<>> /\ ~is_in_code(self.state)
                                                /\ self.state.block_type # "Think"))

\* Parser::parse_document  (the events it returns are left in self.events)
parse_document(self, content) ==
    With(parse_lines(self, str_lines(content), <<>>, FALSE), LAMBDA r :
         With(finalize(r.self), LAMBDA f :
              [self |-> [f EXCEPT !.events = r.all_events \o f.events],
               last_blank |-> r.last_blank]))

\* Parser::reset  (InlineParser::reset clears only the format state; the
\* link/image switches of the inline parser stay)
reset(self) ==
    [self EXCEPT !.state = ParseState_new,
                 !.code_fence = <<>>,
                 !.table_state = "None",
                 !.events = <<>>,
                 !.prev_was_empty = FALSE,
                 !.list_pending_close = FALSE,
                 !.inline_parser.state = FormatState_reset(@)]

\* Parser::set_code_spaces
set_code_spaces(self, enabled) == [self EXCEPT !.state.code_spaces = enabled]

\* Parser::set_process_links  (the tokenizer inside the inline parser keeps its own switch)
set_process_links(self, enabled) ==
    [self EXCEPT !.state.links = enabled, !.inline_parser.process_links = enabled]

\* Parser::set_process_images
set_process_images(self, enabled) ==
    [self EXCEPT !.state.images = enabled, !.inline_parser.process_images = enabled]

-----------------------------------------------------------------------------
(* The parser as a state machine: one action per public operation *)

\* the largest value an ordered-list counter may have when a line is fed
MaxNum == 2

LineBlank     == <<>>
LineSpaces    == <<" ", "FWSP">>
LineText      == <<"a">>
LineHeading   == <<"#", " ", "H">>
LineBullet    == <<"-", " ", "a">>
LineOrdered   == <<"5", ".", " ", "b">>
LineSubOrd    == <<" ", " ", "2", ".", " ", "d">>
LineRow       == <<"|", "x", "|", "y", "|">>
LineSep       == <<"|", "-", "|", "-", "|">>
LineQuote     == <<">", ">", " ", "q">>
LineThink     == <<"<", "t", "h", "i", "n", "k", ">">>
LineThinkEnd  == <<"<", "/", "t", "h", "i", "n", "k", ">">>
LineFence     == <<"BQ", "BQ", "BQ">>
LineSpaceCode == <<" ", " ", " ", " ", "x">>
LineWide      == <<"FWSP", "FWSP", "CJK", "[", "a", "]", "(", "u", ")">>

\* the lines fed to the parser
Lines ==
    {LineBlank, LineSpaces, LineText, LineHeading, LineBullet, LineOrdered, LineSubOrd, LineRow,
     LineSep, LineQuote, LineThink, LineThinkEnd, LineFence, LineSpaceCode, LineWide}

\* the parser held in the variables
Self ==
    [state |-> state, inline_parser |-> inline_parser, code_fence |-> code_fence,
     table_state |-> table_state, events |-> events, prev_was_empty |-> prev_was_empty,
     list_pending_close |-> list_pending_close, panicked |-> panicked]

Install(self) ==
    /\ state' = self.state
    /\ inline_parser' = self.inline_parser
    /\ code_fence' = self.code_fence
    /\ table_state' = self.table_state
    /\ events' = self.events
    /\ prev_was_empty' = self.prev_was_empty
    /\ list_pending_close' = self.list_pending_close
    /\ panicked' = self.panicked

NothingOpen == [code |-> FALSE, think |-> FALSE, quote |-> FALSE, list |-> FALSE, table |-> FALSE]

\* history: what is open after the events evs, given what was open before them
RECURSIVE OpenedAfter(_, _)
OpenedAfter(o, evs) ==
    IF evs = <<>> THEN o
    ELSE LET t == Head(evs).type
         IN  OpenedAfter(
                 CASE t = "CodeBlockStart"  -> [o EXCEPT !.code = TRUE]
                   [] t = "CodeBlockEnd"    -> [o EXCEPT !.code = FALSE]
                   [] t = "ThinkBlockStart" -> [o EXCEPT !.think = TRUE]
                   [] t = "ThinkBlockEnd"   -> [o EXCEPT !.think = FALSE]
                   [] t = "BlockquoteStart" -> [o EXCEPT !.quote = TRUE]
                   [] t = "BlockquoteEnd"   -> [o EXCEPT !.quote = FALSE]
                   [] t = "ListItem"        -> [o EXCEPT !.list = TRUE]
                   [] t = "ListEnd"         -> [o EXCEPT !.list = FALSE]
                   [] t = "TableHeader"     -> [o EXCEPT !.table = TRUE]
                   [] t = "TableEnd"        -> [o EXCEPT !.table = FALSE]
                   [] OTHER                 -> o,
                 Tail(evs))

EventsOfType(evs, t) == SelectSeq(evs, LAMBDA e : e.type = t)

\* history: a level that stays on the stack keeps its count, a level pushed by
\* the call starts at 0, and an Ordered item emitted by the call counts at the top
TakenAfter(tk, old_stack, self) ==
    LET new_stack == self.state.list_item_stack
        items     == EventsOfType(self.events, "ListItem")
        kept      == [i \in 1..Len(new_stack) |->
                        IF i <= Len(old_stack) /\ i <= Len(tk) /\ new_stack[i] = old_stack[i]
                        THEN tk[i] ELSE 0]
    IN  IF items # <<>> /\ items[1].bullet.kind = "Ordered" /\ kept # <<>>
        THEN [kept EXCEPT ![Len(kept)] = @ + 1]
        ELSE kept

OutsideBlocks(self) == ~is_in_code(self.state) /\ self.state.block_type # "Think"

Idle == [pc |-> "idle"]

ParserFresh ==
    /\ state = Parser_new.state
    /\ inline_parser = Parser_new.inline_parser
    /\ code_fence = Parser_new.code_fence
    /\ table_state = Parser_new.table_state
    /\ events = Parser_new.events
    /\ prev_was_empty = Parser_new.prev_was_empty
    /\ list_pending_close = Parser_new.list_pending_close
    /\ panicked = Parser_new.panicked
    /\ op = "new" /\ arg = <<>>
    /\ taken = <<>> /\ opened = NothingOpen /\ last_blank = FALSE

Init ==
    /\ ParserFresh
    /\ tw = Idle /\ ac = Idle /\ pm = Idle /\ cli = Idle

ParseLine(line) ==
    /\ ~panicked
    /\ \A i \in 1..Len(state.ordered_list_numbers) : state.ordered_list_numbers[i] <= MaxNum
    /\ \A i \in 1..Len(taken) : taken[i] <= MaxNum
    /\ \E self \in {parse_line(Self, line)} :
           /\ Install(self)
           /\ taken' = TakenAfter(taken, state.list_item_stack, self)
           /\ opened' = OpenedAfter(opened, self.events)
    /\ last_blank' = (Trim(line) = <<>> /\ OutsideBlocks(Self))
    /\ op' = "parse_line" /\ arg' = line
    /\ UNCHANGED <<tw, ac, pm, cli>>

Finalize ==
    /\ ~panicked
    /\ \E self \in {finalize(Self)} :
           /\ Install(self)
           /\ taken' = TakenAfter(taken, state.list_item_stack, self)
           /\ opened' = OpenedAfter(opened, self.events)
    /\ op' = "finalize" /\ arg' = <<>>
    /\ UNCHANGED <<last_blank, tw, ac, pm, cli>>

Reset ==
    /\ ~panicked
    /\ Install(reset(Self))
    /\ taken' = <<>> /\ opened' = NothingOpen /\ last_blank' = FALSE
    /\ op' = "reset" /\ arg' = <<>>
    /\ UNCHANGED <<tw, ac, pm, cli>>

SetCodeSpaces(enabled) ==
    /\ ~panicked
    /\ Install([set_code_spaces(Self, enabled) EXCEPT !.events = <<>>])
    /\ op' = "set_code_spaces" /\ arg' = <<>>
    /\ UNCHANGED <<taken, opened, last_blank, tw, ac, pm, cli>>

Next ==
    \/ \E line \in Lines : ParseLine(line)
    \/ Finalize
    \/ Reset
    \/ \E enabled \in BOOLEAN : SetCodeSpaces(enabled)

Spec == Init /\ [][Next]_vars

-----------------------------------------------------------------------------
(* The parser fed with fence lines of the three families *)

LineFence4    == <<"BQ", "BQ", "BQ", "BQ">>
LineFenceLang == <<"BQ", "BQ", "BQ", "r">>
LineTilde     == <<"~", "~", "~">>
LineTildeIn   == <<" ", "~", "~", "~", "~", " ">>
LinePre       == <<"<", "p", "r", "e", ">">>
LinePreEnd    == <<"<", "/", "p", "r", "e", ">">>

FenceLines ==
    {LineBlank, LineText, LineFence, LineFence4, LineFenceLang, LineTilde, LineTildeIn,
     LinePre, LinePreEnd}

NextFence ==
    \/ \E line \in FenceLines : ParseLine(line)
    \/ Finalize
    \/ Reset

SpecFence == Init /\ [][NextFence]_vars

-----------------------------------------------------------------------------
(* The parser fed with blockquote lines of several depths and think markers *)

LineQuote1  == <<">", " ", "q">>
LineQuote3  == <<">", " ", ">", ">", "q">>
LineQuoteIn == <<" ", " ", " ", " ", ">", " ", "q">>
LineThinkEndR == <<" ", "<", "/", "t", "h", "i", "n", "k", "RTRI">>
LineThinkEndT == <<"LTRI", "/", "t", "h", "i", "n", "k", "RTRI">>

BlockLines ==
    {LineBlank, LineText, LineBullet, LineFence, LineQuote1, LineQuote, LineQuote3, LineQuoteIn,
     LineThink, LineThinkEnd, LineThinkEndR, LineThinkEndT}

NextBlock ==
    \/ \E line \in BlockLines : ParseLine(line)
    \/ Finalize
    \/ Reset
    \/ \E enabled \in BOOLEAN : SetCodeSpaces(enabled)

SpecBlock == Init /\ [][NextBlock]_vars

-----------------------------------------------------------------------------
(* The parser fed with lines of several indents, in ASCII and fullwidth spaces *)

LineIn2H == <<" ", " ", "#", " ", "H">>
LineIn3H == <<" ", " ", " ", "#", " ", "H">>
LineFw   == <<"FWSP", "W">>

IndentLines ==
    {LineBlank, LineSpaces, LineText, LineHeading, LineIn2H, LineIn3H, LineSubOrd, LineFw,
     LineWide, LineSpaceCode, LineFence}

NextIndent ==
    \/ \E line \in IndentLines : ParseLine(line)
    \/ Finalize
    \/ Reset
    \/ \E enabled \in BOOLEAN : SetCodeSpaces(enabled)

SpecIndent == Init /\ [][NextIndent]_vars

-----------------------------------------------------------------------------
(* The parser fed with 4-space-indented lines, with code_spaces on and off *)

LineIn3     == <<" ", " ", " ", "x">>
LineStar    == <<" ", " ", " ", " ", "*", "x">>
LineStarSp  == <<" ", " ", " ", " ", " ", "*", " ", "x">>
LineTabs    == <<"\t", "\t", "\t", "\t", "x">>
LineInFence == <<" ", " ", " ", " ", "BQ", "BQ", "BQ">>

SpaceCodeLines ==
    {LineBlank, LineText, LineBullet, LineSpaceCode, LineIn3, LineStar, LineStarSp, LineTabs,
     LineInFence}

NextSpaceCode ==
    \/ \E line \in SpaceCodeLines : ParseLine(line)
    \/ Finalize
    \/ Reset
    \/ \E enabled \in BOOLEAN : SetCodeSpaces(enabled)

SpecSpaceCode == Init /\ [][NextSpaceCode]_vars

-----------------------------------------------------------------------------
(* The parser fed with links and images, with the two switches turned on and off *)

LineLink   == <<"[", "a", "]", "(", "u", ")">>
LineImage  == <<"!", "[", "a", "]", "(", "u", ")">>
LineInCode == <<"BQ", "[", "a", "]", "(", "u", ")", "BQ">>
LineBoth   == <<"x", " ", "[", "a", "]", "(", "u", ")", "!", "[", "b", "]", "(", "v", ")">>

InlineLines == {LineBlank, LineText, LineLink, LineImage, LineInCode, LineBoth, LineWide}

SetProcessLinks(enabled) ==
    /\ ~panicked
    /\ Install([set_process_links(Self, enabled) EXCEPT !.events = <<>>])
    /\ op' = "set_process_links" /\ arg' = <<>>
    /\ UNCHANGED <<taken, opened, last_blank, tw, ac, pm, cli>>

SetProcessImages(enabled) ==
    /\ ~panicked
    /\ Install([set_process_images(Self, enabled) EXCEPT !.events = <<>>])
    /\ op' = "set_process_images" /\ arg' = <<>>
    /\ UNCHANGED <<taken, opened, last_blank, tw, ac, pm, cli>>

NextInline ==
    \/ \E line \in InlineLines : ParseLine(line)
    \/ \E enabled \in BOOLEAN : SetProcessLinks(enabled)
    \/ \E enabled \in BOOLEAN : SetProcessImages(enabled)
    \/ Reset

SpecInline == Init /\ [][NextInline]_vars

-----------------------------------------------------------------------------
(* The parser given whole documents *)

DocEmpty  == <<>>
DocNl     == <<"LF">>
DocLine   == <<"a">>
DocLineNl == <<"a", "LF">>
DocTitle  == <<"#", " ", "H", "LF", "LF", "a">>
DocCrLf   == <<"a", "CR", "LF", "b">>
DocCr     == <<"a", "CR">>
DocFence  == <<"BQ", "BQ", "BQ", "LF", "x", "LF">>
DocList   == <<"-", " ", "a", "LF", "LF">>

Docs == {DocEmpty, DocNl, DocLine, DocLineNl, DocTitle, DocCrLf, DocCr, DocFence, DocList}

DocLines == {LineBlank, LineText, LineBullet, LineFence, LineIn2H, LineQuote}

ParseDocument(content) ==
    /\ ~panicked
    /\ \E r \in {parse_document(Self, content)} :
           /\ Install(r.self)
           /\ taken' = TakenAfter(taken, state.list_item_stack, r.self)
           /\ opened' = OpenedAfter(opened, r.self.events)
           /\ last_blank' = IF str_lines(content) = <<>> THEN last_blank ELSE r.last_blank
    /\ op' = "parse_document" /\ arg' = content
    /\ UNCHANGED <<tw, ac, pm, cli>>

NextDoc ==
    \/ \E content \in Docs : ParseDocument(content)
    \/ \E line \in DocLines : ParseLine(line)
    \/ Reset

SpecDoc == Init /\ [][NextDoc]_vars

-----------------------------------------------------------------------------
(* The parser given lines and documents of inline markup *)

LineOpenBold   == <<"*", "*", "a">>
LineOpenStrike == <<"a", " ", "~", "~", "b">>
LineOpenCode   == <<"x", " ", "BQ", "a">>
LineCloseCode  == <<"b", "BQ", "c">>
LineSnake      == <<"a", "_", "b", " ", "c">>
LineItalicU    == <<"a", " ", "_", "b", "_">>
LineEdgeU      == <<"a", "_", " ", "b">>
LineAfterMark  == <<"*", "*", "_", "a">>
LineCode2      == <<"x", "BQ", "BQ", "a", "BQ", "b", "BQ", "BQ">>
LineCodeSp     == <<"x", "BQ", " ", "a", " ", " ", "BQ">>
LineCodeMark   == <<"x", "BQ", "*", "*", "a", "_", "~", "~", "BQ", "y">>
LineCodeLink   == <<"BQ", "BQ", "a", "BQ", "[", "b", "]", "(", "u", ")", "BQ", "BQ">>
LineCodeThen   == <<"BQ", "BQ", "a", "BQ", "b", "BQ", "BQ", "[", "c", "]", "(", "u", ")", "BQ">>
LineTriple     == <<"*", "*", "*", "a", "*", "*", "*", "b">>
LineMixed      == <<"*", "*", "a", "*", "*", "*", "b">>
LineTripleU    == <<"_", "_", "_", "a", "_", "_", "_", "b">>
LineMixedU     == <<"_", "_", "a", "_", "_", "_", "b">>
LineMixedI     == <<"x", " ", "*", "a", "_", "_", "_", " ", "b">>
LineMixedA     == <<"x", " ", "*", "a", "*", "*", "*", "b">>
LineNote       == <<"BQ", "[", "^", "1", "]", "BQ", " ", "[", "^", "2", "]">>

\* the lines of inline markup fed to the parser: none of them starts a block
FormatLines ==
    {LineText, LineOpenBold, LineOpenStrike, LineOpenCode, LineCloseCode, LineSnake,
     LineItalicU, LineEdgeU, LineAfterMark, LineCode2, LineCodeSp, LineCodeMark,
     LineCodeLink, LineCodeThen, LineTriple, LineMixed, LineTripleU, LineMixedU,
     LineMixedI, LineMixedA, LineNote, LineLink, LineImage, LineInCode}

DocOpenBold == LineOpenBold \o <<"LF">> \o LineText
DocOpenCode == LineOpenCode \o <<"LF">> \o LineCloseCode
DocOpenAll  == LineAfterMark \o <<"LF">> \o LineOpenStrike \o <<"LF">> \o LineSnake

FormatDocs == {DocOpenBold, DocOpenCode, DocOpenAll}

NextFormat ==
    \/ \E line \in FormatLines \cup {LineBlank, LineBullet} : ParseLine(line)
    \/ \E content \in FormatDocs : ParseDocument(content)
    \/ \E enabled \in BOOLEAN : SetProcessLinks(enabled)
    \/ \E enabled \in BOOLEAN : SetProcessImages(enabled)
    \/ Reset

SpecFormat == Init /\ [][NextFormat]_vars

-----------------------------------------------------------------------------
(* streamdown-ansi/src/utils.rs *)

\* F applied to its arguments, each evaluated once before F is applied
Once(F(_), x) == CHOOSE r \in {F(v) : v \in {x}} : TRUE

Once2(F(_, _), x, y) == CHOOSE r \in {F(v, w) : v \in {x}, w \in {y}} : TRUE

Once3(F(_, _, _), x, y, z) == CHOOSE r \in {F(v, w, u) : v \in {x}, w \in {y}, u \in {z}} : TRUE

IsLetter(c) == IsAlnum(c) /\ ~IsDigit(c) /\ c # "CJK"

\* ANSIESCAPE  \x1b(?:\[[0-9;?]*[a-zA-Z]|\][0-9]*;;.*?\\|\)) : length of the match at p, 0 if none
AnsiEscapeAt(s, p) ==
    LET csi == RunLen(s, p + 2, {"0", "1", "2", "3", "4", "5", "6", "7", "8", "9", ";", "?"})
        d   == RunLen(s, p + 2, {"0", "1", "2", "3", "4", "5", "6", "7", "8", "9"})
        osc == RunNot(s, p + 4 + d, "\\")
    IN  IF CharAt(s, p) # "ESC" THEN 0
        ELSE IF CharAt(s, p + 1) = "[" /\ IsLetter(CharAt(s, p + 2 + csi)) THEN 3 + csi
        ELSE IF /\ CharAt(s, p + 1) = "]" /\ CharAt(s, p + 2 + d) = ";"
                /\ CharAt(s, p + 3 + d) = ";" /\ CharAt(s, p + 4 + d + osc) = "\\"
             THEN 5 + d + osc
        ELSE IF CharAt(s, p + 1) = ")" THEN 2
        ELSE 0

RECURSIVE VisibleFrom(_, _)
VisibleFrom(s, p) ==
    IF p > Len(s) THEN <<>>
    ELSE IF AnsiEscapeAt(s, p) > 0 THEN Once2(VisibleFrom, s, p + AnsiEscapeAt(s, p))
    ELSE <<s[p]>> \o VisibleFrom(s, p + 1)

\* visible : ANSIESCAPE_RE.replace_all(text, "")
visible(text) == Once2(VisibleFrom, text, 1)

\* UnicodeWidthChar::width : columns of a character.  An ESC that visible
\* leaves in place is a control character, which has no width of its own.
CharWidth(c) == IF c \in {"CJK", "FWSP"} THEN 2 ELSE IF c = "ESC" THEN 0 ELSE 1

\* UnicodeWidthStr::width
RECURSIVE StrWidth(_)
StrWidth(s) == IF s = <<>> THEN 0 ELSE CharWidth(Head(s)) + StrWidth(Tail(s))

\* visible_length
visible_length(text) == Once(StrWidth, visible(text))

\* ESCAPE  \x1b\[[0-9;]*[mK] : length of the match at p, 0 if none
EscapeAt(s, p) ==
    LET n == RunLen(s, p + 2, {"0", "1", "2", "3", "4", "5", "6", "7", "8", "9", ";"})
    IN  IF CharAt(s, p) = "ESC" /\ CharAt(s, p + 1) = "[" /\ CharAt(s, p + 2 + n) \in {"m", "K"}
        THEN 3 + n ELSE 0

RECURSIVE CodesFrom(_, _)
CodesFrom(s, p) ==
    IF p > Len(s) THEN <<>>
    ELSE IF EscapeAt(s, p) > 0
    THEN <<SubSeq(s, p, p + EscapeAt(s, p) - 1)>> \o Once2(CodesFrom, s, p + EscapeAt(s, p))
    ELSE CodesFrom(s, p + 1)

\* extract_ansi_codes
extract_ansi_codes(text) == Once2(CodesFrom, text, 1)

RECURSIVE TrimStartCsi(_)
TrimStartCsi(s) == IF StartsWith(s, <<"ESC", "[">>) THEN TrimStartCsi(SkipChars(s, 2)) ELSE s

RECURSIVE TrimEndChar(_, _)
TrimEndChar(s, c) ==
    IF s # <<>> /\ s[Len(s)] = c THEN TrimEndChar(SubSeq(s, 1, Len(s) - 1), c) ELSE s

\* parse_sgr_params reading only the first parameter of a code
sgr_numbers_first(inner) ==
    LET pieces == Split(inner, ";")
        IsNum(x) == x # <<>> /\ (\A j \in 1..Len(x) : IsDigit(x[j])) /\ ParsesAsU32(x)
        nums   == SelectSeq(pieces, IsNum)
    IN  IF inner = <<>> THEN <<0>>
        ELSE IF nums = <<>> THEN <<>> ELSE <<ParseNat(nums[1])>>

\* parse_sgr_params, from the split on ';' on
sgr_numbers(inner) ==
    LET pieces == Split(inner, ";")
        IsNum(x) == x # <<>> /\ (\A j \in 1..Len(x) : IsDigit(x[j])) /\ ParsesAsU32(x)
        nums   == SelectSeq(pieces, IsNum)
    IN  IF inner = <<>> THEN <<0>>
        ELSE [j \in 1..Len(nums) |-> ParseNat(nums[j])]

\* parse_sgr_params
parse_sgr_params(code) ==
    Once(sgr_numbers, TrimEndChar(TrimEndChar(TrimStartCsi(code), "m"), "K"))

\* the decimal digits of n as characters (format!("{}", n))
FormatNum(n) ==
    LET ds == DigitsOf(n)
    IN  [j \in 1..Len(ds) |-> <<"0", "1", "2", "3", "4", "5", "6", "7", "8", "9">>[ds[j] + 1]]

SgrState0 ==
    [bold |-> FALSE, italic |-> FALSE, underline |-> FALSE, strikeout |-> FALSE,
     dim |-> FALSE, fg_color |-> <<>>, bg_color |-> <<>>]

\* the while loop of ansi_collapse over the parameters of one code
RECURSIVE CollapseParams(_, _, _)
CollapseParams(st, params, i) ==
    IF i > Len(params) THEN st
    ELSE LET v == params[i]
             rgb(lead) ==
                 <<"ESC", "[">> \o lead \o <<";", "2", ";">> \o FormatNum(params[i + 2])
                 \o <<";">> \o FormatNum(params[i + 3]) \o <<";">> \o FormatNum(params[i + 4])
                 \o <<"m">>
             color == (i - 1) + 4 < Len(params) /\ params[i + 1] = 2
         IN  CASE v = 0  -> CollapseParams(SgrState0, params, i + 1)
               [] v = 1  -> CollapseParams([st EXCEPT !.bold = TRUE], params, i + 1)
               [] v = 2  -> CollapseParams([st EXCEPT !.dim = TRUE], params, i + 1)
               [] v = 3  -> CollapseParams([st EXCEPT !.italic = TRUE], params, i + 1)
               [] v = 4  -> CollapseParams([st EXCEPT !.underline = TRUE], params, i + 1)
               [] v = 9  -> CollapseParams([st EXCEPT !.strikeout = TRUE], params, i + 1)
               [] v = 22 -> CollapseParams([st EXCEPT !.bold = FALSE, !.dim = FALSE], params, i + 1)
               [] v = 23 -> CollapseParams([st EXCEPT !.italic = FALSE], params, i + 1)
               [] v = 24 -> CollapseParams([st EXCEPT !.underline = FALSE], params, i + 1)
               [] v = 29 -> CollapseParams([st EXCEPT !.strikeout = FALSE], params, i + 1)
               [] v = 38 -> IF color
                            THEN CollapseParams([st EXCEPT !.fg_color = rgb(<<"3", "8">>)], params, i + 5)
                            ELSE CollapseParams(st, params, i + 1)
               [] v = 39 -> CollapseParams([st EXCEPT !.fg_color = <<>>], params, i + 1)
               [] v = 48 -> IF color
                            THEN CollapseParams([st EXCEPT !.bg_color = rgb(<<"4", "8">>)], params, i + 5)
                            ELSE CollapseParams(st, params, i + 1)
               [] v = 49 -> CollapseParams([st EXCEPT !.bg_color = <<>>], params, i + 1)
               [] OTHER  -> CollapseParams(st, params, i + 1)

RECURSIVE CollapseCodes(_, _)
CollapseCodes(st, code_list) ==
    IF code_list = <<>> THEN st
    ELSE Once2(CollapseCodes, Once3(CollapseParams, st, parse_sgr_params(Head(code_list)), 1),
               Tail(code_list))

RECURSIVE Join(_, _)
Join(parts, sep) ==
    IF parts = <<>> THEN <<>>
    ELSE IF Len(parts) = 1 THEN parts[1]
    ELSE parts[1] \o sep \o Join(Tail(parts), sep)

\* the end of ansi_collapse with dim left out of the combined code
collapsed_codes_no_dim(st) ==
    LET sgr_parts == (IF st.bold THEN << <<"1">> >> ELSE <<>>)
                     \o (IF st.italic THEN << <<"3">> >> ELSE <<>>)
                     \o (IF st.underline THEN << <<"4">> >> ELSE <<>>)
                     \o (IF st.strikeout THEN << <<"9">> >> ELSE <<>>)
    IN  (IF sgr_parts # <<>>
         THEN << <<"ESC", "[">> \o Join(sgr_parts, <<";">>) \o <<"m">> >> ELSE <<>>)
        \o (IF st.fg_color # <<>> THEN <<st.fg_color>> ELSE <<>>)
        \o (IF st.bg_color # <<>> THEN <<st.bg_color>> ELSE <<>>)

\* the end of ansi_collapse: the codes that rebuild the tracked state
collapsed_codes(st) ==
    LET sgr_parts == (IF st.bold THEN << <<"1">> >> ELSE <<>>)
                     \o (IF st.dim THEN << <<"2">> >> ELSE <<>>)
                     \o (IF st.italic THEN << <<"3">> >> ELSE <<>>)
                     \o (IF st.underline THEN << <<"4">> >> ELSE <<>>)
                     \o (IF st.strikeout THEN << <<"9">> >> ELSE <<>>)
    IN  (IF sgr_parts # <<>>
         THEN << <<"ESC", "[">> \o Join(sgr_parts, <<";">>) \o <<"m">> >> ELSE <<>>)
        \o (IF st.fg_color # <<>> THEN <<st.fg_color>> ELSE <<>>)
        \o (IF st.bg_color # <<>> THEN <<st.bg_color>> ELSE <<>>)

\* ansi_collapse
ansi_collapse(code_list) == Once(collapsed_codes, Once2(CollapseCodes, SgrState0, code_list))

\* tokenizer.rs is_cjk, on the characters of the model
is_cjk(c) == c \in {"CJK", "FWSP"}

\* tokenizer.rs cjk_count
cjk_count(s) == Cardinality({j \in 1..Len(s) : is_cjk(s[j])})

-----------------------------------------------------------------------------
(* streamdown-render/src/text.rs *)

\* the for loop of split_text from character p on
RECURSIVE SplitTextFrom(_, _, _, _, _, _)
SplitTextFrom(text, p, words, current, in_escape, escape_buf) ==
    IF p > Len(text)
    THEN LET cur == current \o escape_buf
         IN  IF cur # <<>> THEN Append(words, cur) ELSE words
    ELSE LET ch == text[p]
         IN  IF in_escape
             THEN IF ch = "m"
                  THEN SplitTextFrom(text, p + 1, words, current \o Append(escape_buf, ch), FALSE, <<>>)
                  ELSE SplitTextFrom(text, p + 1, words, current, TRUE, Append(escape_buf, ch))
             ELSE IF ch = "ESC"
             THEN SplitTextFrom(text, p + 1, words, current, TRUE, <<ch>>)
             ELSE IF IsWs(ch)
             THEN SplitTextFrom(text, p + 1, IF current # <<>> THEN Append(words, current) ELSE words,
                                <<>>, FALSE, <<>>)
             ELSE SplitTextFrom(text, p + 1, words, Append(current, ch), FALSE, <<>>)

\* split_text
split_text(text) == SplitTextFrom(text, 1, <<>>, <<>>, FALSE, <<>>)

\* the for loop of truncate_to_visible from character p on
RECURSIVE TruncateFrom(_, _, _, _, _, _)
TruncateFrom(text, max_visible, p, result, visible_count, in_escape) ==
    IF p > Len(text) THEN result
    ELSE LET ch == text[p]
         IN  IF in_escape
             THEN TruncateFrom(text, max_visible, p + 1, Append(result, ch), visible_count, ch # "m")
             ELSE IF ch = "ESC"
             THEN TruncateFrom(text, max_visible, p + 1, Append(result, ch), visible_count, TRUE)
             ELSE IF visible_count >= max_visible THEN result
             ELSE TruncateFrom(text, max_visible, p + 1, Append(result, ch),
                               visible_count + CharWidth(ch), FALSE)

TruncateFrom4(text, max_visible) == TruncateFrom(text, max_visible, 1, <<>>, 0, FALSE)

\* truncate_to_visible
truncate_to_visible(text, max_visible) ==
    Once2(TruncateFrom4, text, max_visible)

\* the condition of the truncation loop together with the test that guards
\* its body: the loop goes round again exactly when all three hold
truncate_again(line_content, width) ==
    /\ visible_length(line_content) > width
    /\ ByteLength(line_content) > 1
    /\ Once(ByteLength, visible(line_content)) > 1

\* the body of the truncation loop
truncate_once(line_content) ==
    Append(truncate_to_visible(line_content, Once(ByteLength, visible(line_content)) - 2), "ELL")

\* the codes of a word that text_wrap pushes before looking at the word's width
leading_of(word, codes) ==
    IF codes # <<>> /\ StartsWith(word, codes[1]) THEN <<codes[1]>> ELSE <<>>

leading_code(word) == Once2(leading_of, word, extract_ansi_codes(word))

\* the style tracking at the end of the word loop's body
later_codes(word, codes) ==
    LET first == IF codes = <<>> THEN <<>> ELSE codes[1]
    IN  IF StartsWith(word, first) THEN SkipChars(codes, 1) ELSE codes

update_style(current_style, word) ==
    ansi_collapse(current_style \o Once2(later_codes, word, extract_ansi_codes(word)))

\* the resetter text_wrap appends to each line
resetter(preserve_format) == IF preserve_format THEN <<>> ELSE <<"ESC", "[", "0", "m">>

-----------------------------------------------------------------------------
(* text_wrap as a process: one step per round of its loops.  tw.pc is the
   position in the function: "word" at the head of the for loop (tw.i is the
   index of the next word), "trunc" in the truncation loop of a line the for
   loop closes, "last" after the for loop, "trunc_last" in the truncation
   loop of the last line, "done" after the return.  tw.line_words and
   tw.cur_words record the words put on each returned line and on the
   current line. *)

MaxWidth == 4
MaxIndent == 2
MaxContentLen == 10

TextBlank == <<" ">>
TextShort == <<"a">>
TextWord == <<"a", "b", "c", "d", "e", "f">>
TextTwo == <<"a", "b", "c", " ", "d", "e">>
TextThree == <<"a", "b", "c", "d", "e", "f", " ", "g", " ", "h">>
TextCjk == <<"CJK", "CJK", " ", "CJK", " ", "a">>
TextAnsi == <<"ESC", "[", "1", "m", "a", "b", "ESC", "[", "0", "m", " ", "c", "d">>

WrapTexts == {TextBlank, TextShort, TextWord, TextTwo, TextThree, TextCjk, TextAnsi}

WrapPrefixes == {<<>>, <<">", " ">>}

\* usize::saturating_sub
saturating_sub(a, b) == IF a > b THEN a - b ELSE 0

\* the prefix of the line being closed
line_prefix(t) == IF t.lines = <<>> THEN t.first_prefix ELSE t.next_prefix

\* the end of the word loop's body: style tracking, prev_word, next word
wrap_next_word(t) ==
    LET word == t.words[t.i]
    IN  [t EXCEPT !.current_style = update_style(@, word),
                  !.prev_word = word,
                  !.i = @ + 1,
                  !.pc = IF t.i + 1 > Len(t.words) THEN "last" ELSE "word"]

\* the new line started without the word when the word is wider than the width
wrap_start_line_fit(t) ==
    LET word == t.words[t.i]
        fits == visible_length(word) <= t.width
    IN  Once(wrap_next_word,
             [t EXCEPT !.current_line = IF fits
                                        THEN Repeat(" ", t.indent) \o Join(t.current_style, <<>>) \o word
                                        ELSE <<>>,
                       !.cur_words = IF fits THEN <<word>> ELSE <<>>])

\* the new line started with the last code pushed only
wrap_start_line_last(t) ==
    LET word == t.words[t.i]
        last_style == IF t.current_style = <<>> THEN <<>> ELSE Last(t.current_style)
    IN  Once(wrap_next_word,
             [t EXCEPT !.current_line = Repeat(" ", t.indent) \o last_style \o word,
                       !.cur_words = <<word>>])

\* "Start new line with current word", then the end of the body
wrap_start_line(t) ==
    LET word == t.words[t.i]
    IN  Once(wrap_next_word,
             [t EXCEPT !.current_line = Repeat(" ", t.indent) \o Join(t.current_style, <<>>) \o word,
                       !.cur_words = <<word>>])

\* "Add resetter and padding", the push of the line, then the new line
wrap_push_line(t, padded) ==
    LET kept == Trim(visible(padded)) # <<>>
    IN  Once(wrap_start_line,
             [t EXCEPT !.lines = IF kept THEN Append(@, padded) ELSE @,
                       !.line_words = IF kept THEN Append(@, t.cur_words) ELSE @,
                       !.line_content = <<>>])

wrap_close_line(t, content) ==
    LET padding == saturating_sub(t.width, visible_length(content))
    IN  Once2(wrap_push_line, t, content \o resetter(t.preserve_format) \o Repeat(" ", padding))

\* the push of the last line and the return
wrap_return(t, content) ==
    [t EXCEPT !.lines = Append(@, content \o resetter(t.preserve_format)),
              !.line_words = Append(@, t.cur_words),
              !.line_content = <<>>,
              !.pc = "done"]

\* the body of the for loop over the words and the trailing empty word,
\* after "Check if word starts with an ANSI code" (t1 has the pushed code)
wrap_place_word(t, t1) ==
    LET word == t.words[t.i]
        word_visible_len == visible_length(word)
        line_visible_len == visible_length(t.current_line)
        space_needed ==
            IF cjk_count(word) > 0 /\ cjk_count(t.prev_word) > 0 THEN 0
            ELSE IF t.current_line = <<>> \/ word_visible_len = 0 THEN 0 ELSE 1
    IN  IF word_visible_len > 0 /\ line_visible_len + word_visible_len + space_needed <= t.width
        THEN Once(wrap_next_word,
                  [t1 EXCEPT
                      !.current_line = @ \o (IF space_needed > 0 /\ @ # <<>> THEN <<" ">> ELSE <<>>) \o word,
                      !.cur_words = Append(@, word)])
        ELSE IF word_visible_len > 0
        THEN IF t.current_line # <<>>
             THEN IF t.force_truncate
                  THEN [t1 EXCEPT !.pc = "trunc", !.line_content = line_prefix(t) \o t.current_line]
                  ELSE wrap_close_line(t1, line_prefix(t) \o t.current_line)
             ELSE wrap_start_line(t1)
        ELSE wrap_next_word(t1)

\* one round of the for loop: the leading code joins the style, then the
\* word is placed
wrap_word(t) ==
    Once2(wrap_place_word, t, [t EXCEPT !.current_style = @ \o leading_code(t.words[t.i])])

\* "Don't forget the last line"
wrap_last(t) ==
    IF t.current_line # <<>> /\ Trim(visible(t.current_line)) # <<>>
    THEN IF t.force_truncate
         THEN [t EXCEPT !.pc = "trunc_last", !.line_content = line_prefix(t) \o t.current_line]
         ELSE wrap_return(t, line_prefix(t) \o t.current_line)
    ELSE [t EXCEPT !.pc = "done"]

\* one round of a truncation loop.  The line is stored up to MaxContentLen
\* characters: a round that would make it longer only appends one more
\* ellipsis to a line that is already too wide, and is recorded by
\* tw.beyond, the parity of the ellipses that are not stored.
wrap_truncated(t, next) ==
    IF Len(next) <= Len(t.line_content) \/ Len(next) <= MaxContentLen
    THEN [t EXCEPT !.line_content = next, !.truncated = TRUE]
    ELSE [t EXCEPT !.beyond = 1 - @, !.truncated = TRUE]

wrap_truncate(t) == Once2(wrap_truncated, t, truncate_once(t.line_content))

\* the entry of text_wrap: the two early returns and the locals
wrap_enter(text, width, indent, first_prefix, next_prefix, force_truncate, preserve_format) ==
    LET words == split_text(text)
    IN  [pc |-> IF width = 0 \/ words = <<>> THEN "done" ELSE "word",
         text |-> text, width |-> width, indent |-> indent,
         first_prefix |-> first_prefix, next_prefix |-> next_prefix,
         force_truncate |-> force_truncate, preserve_format |-> preserve_format,
         words |-> IF width = 0 THEN <<>> ELSE Append(words, <<>>),
         i |-> 1, lines |-> <<>>, current_line |-> <<>>, current_style |-> <<>>,
         truncated |-> FALSE, prev_word |-> <<>>, line_content |-> <<>>,
         line_words |-> <<>>, cur_words |-> <<>>, beyond |-> 0]

parser_vars ==
    <<state, inline_parser, code_fence, table_state, events, prev_was_empty,
      list_pending_close, panicked, op, arg, taken, opened, last_blank>>

InitWrap ==
    /\ ParserFresh
    /\ tw = [pc |-> "call"]
    /\ ac = Idle /\ pm = Idle /\ cli = Idle

\* a call of text_wrap on one of the texts
WrapCallOn(texts) ==
    /\ tw.pc = "call"
    /\ \E text \in texts, width \in 0..MaxWidth, indent \in 0..MaxIndent,
          first_prefix \in WrapPrefixes, next_prefix \in WrapPrefixes,
          force_truncate \in BOOLEAN, preserve_format \in BOOLEAN :
          tw' = wrap_enter(text, width, indent, first_prefix, next_prefix,
                           force_truncate, preserve_format)
    /\ UNCHANGED <<parser_vars, ac, pm, cli>>

WrapCall == WrapCallOn(WrapTexts)

WrapWord ==
    /\ tw.pc = "word"
    /\ tw' = wrap_word(tw)
    /\ UNCHANGED <<parser_vars, ac, pm, cli>>

WrapTruncate ==
    /\ tw.pc = "trunc"
    /\ truncate_again(tw.line_content, tw.width)
    /\ tw' = wrap_truncate(tw)
    /\ UNCHANGED <<parser_vars, ac, pm, cli>>

WrapCloseLine ==
    /\ tw.pc = "trunc"
    /\ ~truncate_again(tw.line_content, tw.width)
    /\ tw' = wrap_close_line(tw, tw.line_content)
    /\ UNCHANGED <<parser_vars, ac, pm, cli>>

WrapLast ==
    /\ tw.pc = "last"
    /\ tw' = wrap_last(tw)
    /\ UNCHANGED <<parser_vars, ac, pm, cli>>

WrapTruncateLast ==
    /\ tw.pc = "trunc_last"
    /\ truncate_again(tw.line_content, tw.width)
    /\ tw' = wrap_truncate(tw)
    /\ UNCHANGED <<parser_vars, ac, pm, cli>>

WrapReturn ==
    /\ tw.pc = "trunc_last"
    /\ ~truncate_again(tw.line_content, tw.width)
    /\ tw' = wrap_return(tw, tw.line_content)
    /\ UNCHANGED <<parser_vars, ac, pm, cli>>

NextWrap ==
    \/ WrapCall
    \/ WrapWord
    \/ WrapTruncate
    \/ WrapCloseLine
    \/ WrapLast
    \/ WrapTruncateLast
    \/ WrapReturn

SpecWrap == InitWrap /\ [][NextWrap]_vars

\* text_wrap runs on one thread that nothing blocks: a step that can be
\* taken is taken
SpecWrapFair == SpecWrap /\ WF_vars(NextWrap)

-----------------------------------------------------------------------------
(* ansi_collapse called on lists of SGR codes *)

MaxCodes == 3

\* ESC [ params m
Sgr(params) == <<"ESC", "[">> \o params \o <<"m">>

SgrCodes ==
    { Sgr(<<"0">>), Sgr(<<>>), Sgr(<<"1">>), Sgr(<<"2">>), Sgr(<<"3">>), Sgr(<<"4">>), Sgr(<<"9">>),
      Sgr(<<"2", "2">>), Sgr(<<"2", "3">>), Sgr(<<"2", "4">>), Sgr(<<"2", "9">>),
      Sgr(<<"3", "9">>), Sgr(<<"4", "9">>), Sgr(<<"7">>),
      Sgr(<<"1", ";", "3", ";", "4">>),
      Sgr(<<"3", "8", ";", "2", ";", "1", ";", "2", ";", "3">>),
      Sgr(<<"3", "8", ";", "2", ";", "9", ";", "0", ";", "4">>),
      Sgr(<<"4", "8", ";", "2", ";", "1", ";", "2", ";", "3">>) }

CodeLists == UNION {[1..n -> SgrCodes] : n \in 0..MaxCodes}

InitCollapse ==
    /\ ParserFresh
    /\ tw = Idle /\ pm = Idle /\ cli = Idle
    /\ ac = [pc |-> "call"]

AnsiCollapse(code_list) ==
    /\ ac.pc = "call"
    /\ ac' = [pc |-> "returned", code_list |-> code_list, result |-> ansi_collapse(code_list)]
    /\ UNCHANGED <<parser_vars, tw, pm, cli>>

NextCollapse == \E code_list \in CodeLists : AnsiCollapse(code_list)

SpecCollapse == InitCollapse /\ [][NextCollapse]_vars

-----------------------------------------------------------------------------
(* text_wrap on styled text *)

SgrBold   == <<"ESC", "[", "1", "m">>
SgrItalic == <<"ESC", "[", "3", "m">>
SgrReset  == <<"ESC", "[", "0", "m">>

TextBoldOpen  == SgrBold \o <<"a", " ", "b">>
TextBoldAlone == SgrBold \o <<" ", "a", " ", "b", "c">>
TextTwoStyles == SgrBold \o <<"a", " ">> \o SgrItalic \o <<"b", " ", "c">>
TextBoldMid   == <<"a">> \o SgrBold \o <<"b", " ", "c", "d", "e", "f", "g">>
TextBoldReset == SgrBold \o <<"a">> \o SgrReset \o <<" ", "b", " ">> \o SgrItalic

StyleTexts ==
    {TextBoldOpen, TextBoldAlone, TextTwoStyles, TextBoldMid, TextBoldReset, TextCjk, TextThree}

WrapCallStyled == WrapCallOn(StyleTexts)

NextWrapStyle ==
    \/ WrapCallStyled
    \/ WrapWord
    \/ WrapTruncate
    \/ WrapCloseLine
    \/ WrapLast
    \/ WrapTruncateLast
    \/ WrapReturn

SpecWrapStyle == InitWrap /\ [][NextWrapStyle]_vars

-----------------------------------------------------------------------------
(* Properties of the parser *)

Has(evs, t) == \E i \in 1..Len(evs) : evs[i].type = t

Count(evs, t) == Len(EventsOfType(evs, t))

IsBlank(line) == Trim(line) = <<>>

\* C1: no parse_line call panics, from any reachable parser state and for any
\* line: no string is ever sliced off a character boundary.
C1_NeverPanics == ~panicked

\* a line indented with fullwidth spaces has had a first_indent of 2 characters
\* stripped, and the tokenizer has cut a link out of the text after a CJK character
C1_Witness ==
    /\ op = "parse_line" /\ arg = LineWide
    /\ state.first_indent = Some(2)
    /\ Has(events, "Link") /\ Has(events, "Text")
    /\ ~panicked

\* C4: while a table is open, a non-blank line that is not a |...| row ends the
\* table in the same call: TableEnd is the first event, before the events of
\* the construct the line matches, and the table is closed afterwards.
C4_TableEndFirst ==
    [][ ( /\ op' = "parse_line"
          /\ OutsideBlocks(Self)
          /\ opened.table
          /\ ~IsBlank(arg')
          /\ ~TABLE_ROW_RE(strip_first_indent(Self, arg').ret).ok )
        => ( /\ events' # <<>>
             /\ events'[1].type = "TableEnd"
             /\ table_state' = "None" ) ]_vars

\* C5: a blank line received while a list is open emits no ListEnd and keeps the
\* list stack and the ordered counters; a list item after the blank cancels the
\* pending close, emits no ListEnd and is numbered as it would be without the
\* blank; a list gets exactly one ListEnd, from the non-list line that follows
\* a pending close or from finalize.
C5_LooseList ==
    [][ /\ ( op' = "parse_line" /\ OutsideBlocks(Self) /\ IsBlank(arg') /\ state.in_list )
           => ( /\ ~Has(events', "ListEnd")
                /\ state'.list_item_stack = state.list_item_stack
                /\ state'.ordered_list_numbers = state.ordered_list_numbers
                /\ state'.in_list /\ opened'.list )
        /\ ( op' = "parse_line" /\ list_pending_close /\ Has(events', "ListItem") )
           => ( /\ ~list_pending_close'
                /\ ~Has(events', "ListEnd")
                /\ state'.in_list /\ opened'.list
                /\ EventsOfType(events', "ListItem")
                   = EventsOfType(parse_line([Self EXCEPT !.list_pending_close = FALSE,
                                                          !.prev_was_empty = FALSE], arg').events,
                                  "ListItem") )
        /\ ( op' = "parse_line" /\ list_pending_close /\ ~IsBlank(arg') /\ ~Has(events', "ListItem") )
           => ( Count(events', "ListEnd") = 1 /\ ~opened'.list )
        /\ ( op' = "finalize" /\ opened.list )
           => ( Count(events', "ListEnd") = 1 /\ ~opened'.list )
        /\ ( op' \in {"parse_line", "finalize"} /\ Has(events', "ListEnd") )
           => ( Count(events', "ListEnd") = 1 /\ opened.list ) ]_vars

\* a blank line has arrived after the first item of an ordered list: the close
\* is pending, and the stack and the counter (next number 2) are kept
C5_Witness ==
    /\ op = "parse_line" /\ IsBlank(arg)
    /\ list_pending_close /\ state.in_list
    /\ state.list_item_stack = << [indent |-> 0, type |-> "Ordered"] >>
    /\ state.ordered_list_numbers = <<2>>
    /\ events = << [type |-> "EmptyLine"] >>

\* C6: when a list close is pending and the next non-blank line is not a list
\* item, the call emits exactly one ListEnd, the list stack is cleared, and the
\* ListEnd comes before every event of the line's own content.
C6_ListEndFirst ==
    [][ ( /\ op' = "parse_line"
          /\ list_pending_close
          /\ ~IsBlank(arg')
          /\ ~Has(events', "ListItem") )
        => ( /\ Count(events', "ListEnd") = 1
             /\ state'.list_item_stack = <<>>
             /\ events'[1].type = "ListEnd" ) ]_vars

\* C7: an ordered item is numbered by the counter of its own level: the k-th
\* ordered item taken at a level since the level was opened is Ordered(k).
C7_PerLevelNumbering ==
    LET items == EventsOfType(events, "ListItem")
    IN  ( op = "parse_line" /\ items # <<>> /\ items[1].bullet.kind = "Ordered" )
        => ( taken # <<>> /\ items[1].bullet.n = taken[Len(taken)] )

\* C8: outside code and think blocks a blank line that follows a blank line
\* emits nothing, and any other blank line emits exactly one EmptyLine, as its
\* last event: a run of blank lines yields exactly one EmptyLine.
C8_BlankCollapsing ==
    [][ ( op' = "parse_line" /\ OutsideBlocks(Self) /\ IsBlank(arg') )
        => IF last_blank
           THEN events' = <<>>
           ELSE /\ Count(events', "EmptyLine") = 1
                /\ events'[Len(events')].type = "EmptyLine" ]_vars

\* the second blank line of a run has been fed and has produced no event
C8_Witness ==
    /\ op = "parse_line" /\ IsBlank(arg)
    /\ OutsideBlocks(Self)
    /\ last_blank /\ prev_was_empty
    /\ events = <<>>

\* the closing events finalize owes to the constructs o that are open, in order
Closers(o) ==
    (IF o.code THEN << [type |-> "CodeBlockEnd"] >> ELSE <<>>)
    \o (IF o.think THEN << [type |-> "ThinkBlockEnd"] >> ELSE <<>>)
    \o (IF o.quote THEN << [type |-> "BlockquoteEnd"] >> ELSE <<>>)
    \o (IF o.list THEN << [type |-> "ListEnd"] >> ELSE <<>>)
    \o (IF o.table THEN << [type |-> "TableEnd"] >> ELSE <<>>)

\* C9: finalize emits one closing event per construct still open and nothing
\* else, in the order CodeBlockEnd, ThinkBlockEnd, BlockquoteEnd, ListEnd, TableEnd.
C9_FinalizeClosesOpen ==
    [][ op' = "finalize" => events' = Closers(opened) ]_vars

\* C10: a non-blank line indented by fewer than 4 characters inside a
\* space-indented code block closes the block and then yields exactly the
\* events the normal dispatch gives for it outside a code block.
C10_DedentRedispatch ==
    [][ ( /\ op' = "parse_line"
          /\ state.in_code = "Spaces"
          /\ code_fence = <<>>
          /\ LeadingWs(arg') < 4
          /\ ~IsBlank(arg') )
        => events' = << [type |-> "CodeBlockEnd"] >>
                     \o parse_line([Self EXCEPT !.state = exit_code_block(@)], arg').events ]_vars

\* the family of an opening or closing fence: a backtick run, a tilde run, or
\* the <pre> / </pre> pair
FenceFamily(fence) ==
    IF fence = <<>> THEN "none"
    ELSE IF fence[1] = "BQ" THEN "backtick"
    ELSE IF fence[1] = "~" THEN "tilde"
    ELSE "pre"

\* line is a closing-fence line of the family of the opener
ClosesFence(opener, line) ==
    /\ CODE_FENCE_END_RE(line).ok
    /\ FenceFamily(CODE_FENCE_END_RE(line).fence) = FenceFamily(opener)

\* C11: inside a fenced code block a closing-fence line of the opener's family
\* emits CodeBlockEnd and closes the block; every other line, a closing fence
\* of another family included, is emitted as a CodeBlockLine and leaves the
\* block open with its opener.
C11_FenceFamily ==
    [][ ( op' = "parse_line" /\ state.in_code = "Backtick" )
        => IF ClosesFence(code_fence, arg')
           THEN /\ events' = << [type |-> "CodeBlockEnd"] >>
                /\ ~is_in_code(state') /\ ~opened'.code
           ELSE /\ events' = << [type |-> "CodeBlockLine", s |-> arg'] >>
                /\ state'.in_code = "Backtick" /\ code_fence' = code_fence
                /\ opened'.code ]_vars

\* a </pre> line has arrived inside a block opened by a backtick fence, and a
\* tilde fence inside a block opened by <pre>: both are code lines
C11_Witness ==
    /\ op = "parse_line" /\ arg = LinePreEnd
    /\ code_fence = LineFence /\ state.in_code = "Backtick"
    /\ events = << [type |-> "CodeBlockLine", s |-> LinePreEnd] >>

\* the number of '>' markers of a blockquote line, 0 for any other line
QuoteMarkers(line) ==
    IF BLOCK_RE(line).ok /\ ~Contains(BLOCK_RE(line).marker, Think5)
    THEN CountChar(BLOCK_RE(line).marker, ">")
    ELSE 0

\* the line the block matchers see: arg' after the first-indent stripping
Dispatched(self, line) == strip_first_indent(self, line).ret

\* the call dispatches a non-blank line to the block matchers
ToMatchers(self, line) ==
    /\ OutsideBlocks(self)
    /\ ~IsBlank(line)
    /\ ~try_parse_space_code(self, line, self.prev_was_empty).ret

QuoteEvents(evs) ==
    SelectSeq(evs, LAMBDA e : e.type \in {"BlockquoteStart", "BlockquoteLine", "BlockquoteEnd"})

\* C12: a blockquote line with n >= 1 markers arriving at depth d emits, of the
\* blockquote events, exactly one BlockquoteStart{depth: n} and then the
\* BlockquoteLine if n > d, and the BlockquoteLine alone if n <= d; the depth
\* is n after the call.
C12_QuoteDepth ==
    [][ ( /\ op' = "parse_line"
          /\ ToMatchers(Self, arg')
          /\ ~CODE_FENCE_RE(Dispatched(Self, arg')).ok
          /\ QuoteMarkers(Dispatched(Self, arg')) >= 1 )
        => LET n    == QuoteMarkers(Dispatched(Self, arg'))
               line == [type |-> "BlockquoteLine", s |-> BLOCK_RE(Dispatched(Self, arg')).content]
           IN  /\ QuoteEvents(events') =
                      IF n > state.block_depth
                      THEN << [type |-> "BlockquoteStart", depth |-> n], line >>
                      ELSE << line >>
               /\ state'.block_depth = n ]_vars

\* a line with three markers has opened two or three levels at once: it has
\* emitted one BlockquoteStart{3}
C12_Witness ==
    /\ op = "parse_line" /\ arg = LineQuote3
    /\ state.block_depth = 3 /\ state.block_type = "Quote"
    /\ opened.quote
    /\ events = << [type |-> "BlockquoteStart", depth |-> 3],
                   [type |-> "BlockquoteLine", s |-> <<"q">>] >>

\* C13 as stated: no non-blank line ever causes a BlockquoteEnd.
C13_OnlyBlankOrEof ==
    [][ ( op' = "parse_line" /\ ~IsBlank(arg') ) => ~Has(events', "BlockquoteEnd") ]_vars

\* C13, amended: a BlockquoteEnd is emitted only while a blockquote is open,
\* once, closing every level, and only by finalize, by a blank line, or by a
\* non-blank line that reaches the block matcher without a block marker (one
\* that does not continue the quote); a blockquote line of any depth, a think
\* marker and a fence opener never cause one.
C13_QuoteEndSources ==
    [][ Has(events', "BlockquoteEnd")
        => /\ Count(events', "BlockquoteEnd") = 1
           /\ opened.quote /\ ~opened'.quote
           /\ state'.block_depth = 0
           /\ \/ op' = "finalize"
              \/ op' = "parse_line" /\ OutsideBlocks(Self) /\ IsBlank(arg')
              \/ /\ op' = "parse_line" /\ ToMatchers(Self, arg')
                 /\ ~CODE_FENCE_RE(Dispatched(Self, arg')).ok
                 /\ ~BLOCK_RE(Dispatched(Self, arg')).ok ]_vars

\* a plain text line has arrived inside a blockquote and has closed it
C13_Witness ==
    /\ op = "parse_line" /\ arg = LineText
    /\ events # <<>> /\ events[1].type = "BlockquoteEnd"
    /\ state.block_depth = 0 /\ ~opened.quote

\* line with its first n characters removed if it has at least n leading
\* whitespace characters, and unchanged otherwise
Stripped(n, line) == IF LeadingWs(line) >= n THEN SkipChars(line, n) ELSE line

\* the events of a call whose block matchers are given the line seen
MatchedEvents(self, seen) ==
    parse_matched(match_line([self EXCEPT !.events = <<>>, !.prev_was_empty = FALSE,
                                          !.state.last_line_empty = FALSE],
                             seen),
                  seen).events

\* first_indent is kept by every call but reset, and set by a parse_line for
\* which first(Self, line) holds, to the line's count of leading whitespace characters
FirstIndentSetBy(first(_, _)) ==
    /\ ( op' # "reset" /\ state.first_indent.is_some ) => state'.first_indent = state.first_indent
    /\ ( op' = "reset" ) => ~state'.first_indent.is_some
    /\ ( op' # "reset" /\ ~state.first_indent.is_some )
       => state'.first_indent = IF op' = "parse_line" /\ first(Self, arg')
                                THEN Some(LeadingWs(arg'))
                                ELSE state.first_indent

\* a parse_line for which later(Self, line) holds gives the events of the
\* block matchers on the line with first_indent characters removed
StrippedWhen(later(_, _)) ==
    ( op' = "parse_line" /\ later(Self, arg') )
    => events' = MatchedEvents(Self, Stripped(state'.first_indent.v, arg'))

NonBlankOutside(self, line) == OutsideBlocks(self) /\ ~IsBlank(line)

\* C14 as stated: first_indent is set once, by the first non-blank line, to
\* its count of leading whitespace characters, and kept until reset; every
\* non-blank line outside code and think blocks with at least first_indent
\* leading whitespace characters has exactly first_indent characters removed
\* before block matching, and a line with fewer is left unchanged.
C14_FirstIndent ==
    [][ FirstIndentSetBy(NonBlankOutside) /\ StrippedWhen(NonBlankOutside) ]_vars

\* C14, amended: the same, for the non-blank lines outside code and think
\* blocks that do not open a space-indented code block; a line that opens one
\* is matched before the stripping: it does not set first_indent and nothing
\* but its 4-character code indent is removed.
C14_FirstIndentAfterSpaceCode ==
    [][ /\ FirstIndentSetBy(ToMatchers)
        /\ StrippedWhen(ToMatchers)
        /\ ( op' = "parse_line" /\ NonBlankOutside(Self, arg') /\ ~ToMatchers(Self, arg') )
           => ( /\ Has(events', "CodeBlockStart")
                /\ Has(events', "CodeBlockLine")
                /\ EventsOfType(events', "CodeBlockLine")[1].s = SkipChars(arg', 4) ) ]_vars

\* a line indented by 3 spaces has arrived after first_indent was set to 2: two
\* characters are removed, and what is left is no heading
C14_Witness ==
    /\ op = "parse_line" /\ arg = LineIn3H
    /\ state.first_indent = Some(2)
    /\ events = << [type |-> "Text", s |-> <<" ", "#", " ", "H">>], [type |-> "Newline"] >>

\* a line that begins with a single fullwidth space arrives at the block
\* matchers' dispatch when first_indent is 2
FullwidthAfterTwo ==
    /\ op' = "parse_line"
    /\ ToMatchers(Self, arg')
    /\ state.first_indent = Some(2)
    /\ arg'[1] = "FWSP" /\ LeadingWs(arg') = 1

\* C15 as stated: with first_indent = 2, a line that begins with a single
\* fullwidth space is processed without panic and has exactly 1 character, the
\* fullwidth space, stripped.
C15_StripsOneChar ==
    [][ FullwidthAfterTwo
        => ( ~panicked' /\ events' = MatchedEvents(Self, SkipChars(arg', 1)) ) ]_vars

\* C15, amended: with first_indent = 2, a line that begins with a single
\* fullwidth space is processed without panic and is left unchanged: it has
\* fewer than first_indent leading whitespace characters, so nothing is
\* stripped, neither 1 character nor 2 bytes.
C15_LeftUnchanged ==
    [][ FullwidthAfterTwo
        => ( ~panicked' /\ events' = MatchedEvents(Self, arg') ) ]_vars

\* the line has arrived after a first line indented by 2, and its text still
\* starts with the fullwidth space
C15_Witness ==
    /\ op = "parse_line" /\ arg = LineFw
    /\ state.first_indent = Some(2)
    /\ ~panicked
    /\ events = << [type |-> "Text", s |-> LineFw], [type |-> "Newline"] >>

\* the first character of line that is not whitespace ("EOL" if there is none)
FirstNonSpace(line) ==
    IF LeadingWs(line) < Len(line) THEN line[LeadingWs(line) + 1] ELSE "EOL"

\* what a space-indented code block needs to open: the feature is on, the
\* line before was blank, no list is open (ListItem seen and no ListEnd yet),
\* and the line has 4 or more leading whitespace characters and then a
\* character other than '*'
SpaceCodeMayOpen(line) ==
    /\ state.code_spaces
    /\ last_blank
    /\ ~opened.list
    /\ LeadingWs(line) >= 4
    /\ FirstNonSpace(line) # "*"

\* C16: a space-indented code block is opened only by a line for which all of
\* these hold: code_spaces is enabled, the line before was blank, no list is
\* open, the line has at least 4 leading whitespace characters, and its first
\* non-space character is not '*'.  In every other situation a line that is
\* no fence opener emits no CodeBlockStart.
C16_SpaceCodeOnlyWhen ==
    [][ /\ ( op' = "parse_line" /\ state.in_code # "Spaces" /\ state'.in_code = "Spaces" )
           => SpaceCodeMayOpen(arg')
        /\ ( /\ op' = "parse_line" /\ OutsideBlocks(Self)
             /\ ~SpaceCodeMayOpen(arg')
             /\ ~CODE_FENCE_RE(Dispatched(Self, arg')).ok )
           => ~Has(events', "CodeBlockStart") ]_vars

\* a 4-space-indented line has arrived after a blank line while a list was
\* open: the feature is on and no code block is opened
C16_Witness ==
    /\ op = "parse_line" /\ arg = LineSpaceCode
    /\ state.code_spaces
    /\ ~Has(events, "CodeBlockStart") /\ Has(events, "ListEnd")
    /\ ~is_in_code(state)

\* C17: inside a think block a line whose trimmed text is one of the three end
\* markers emits ThinkBlockEnd and ends the think block, so that the next line
\* goes to the normal block matchers; every other line emits exactly one
\* ThinkBlockLine carrying the line verbatim and changes no other parser state.
C17_ThinkBlock ==
    [][ ( op' = "parse_line" /\ ~is_in_code(state) /\ state.block_type = "Think" )
        => IF Trim(arg') \in { <<"<", "/", "t", "h", "i", "n", "k", ">">>,
                               <<"<", "/", "t", "h", "i", "n", "k", "RTRI">>,
                               <<"LTRI", "/", "t", "h", "i", "n", "k", "RTRI">> }
           THEN /\ events' = << [type |-> "ThinkBlockEnd"] >>
                /\ state'.block_type # "Think"
           ELSE /\ events' = << [type |-> "ThinkBlockLine", s |-> arg'] >>
                /\ UNCHANGED <<state, inline_parser, code_fence, table_state,
                               prev_was_empty, list_pending_close>> ]_vars

TableEvents(evs) ==
    SelectSeq(evs, LAMBDA e : e.type \in {"TableHeader", "TableSeparator", "TableRow", "TableEnd"})

\* the trimmed cells of a |...| row
RowCells(row) ==
    LET parts == Split(TABLE_ROW_RE(row).inner, "|")
    IN  [i \in 1..Len(parts) |-> Trim(parts[i])]

\* a row of whitespace, '|', ':' and '-' only
IsSeparatorRow(row) ==
    \A i \in 1..Len(TABLE_ROW_RE(row).inner) :
        IsWs(TABLE_ROW_RE(row).inner[i]) \/ TABLE_ROW_RE(row).inner[i] \in {"|", ":", "-"}

\* C18: a table is in a phase exactly from its TableHeader to its TableEnd.  A
\* |...| row with no active table emits TableHeader and enters the Header
\* phase; a separator row in the Header phase emits TableSeparator and
\* switches to the Body phase; a row in the Body phase emits TableRow.  The
\* Body phase is entered only by a TableSeparator and left only by a TableEnd
\* (or reset), so a table has at most one TableSeparator and its TableRows
\* come after it.
C18_TablePhases ==
    [][ /\ ( table_state' # "None" ) <=> opened'.table
        /\ ( /\ op' = "parse_line" /\ ToMatchers(Self, arg')
             /\ TABLE_ROW_RE(Dispatched(Self, arg')).ok )
           => LET row == Dispatched(Self, arg')
              IN  CASE table_state = "None" ->
                         /\ TableEvents(events') = << [type |-> "TableHeader", cells |-> RowCells(row)] >>
                         /\ table_state' = "Header"
                    [] table_state = "Header" /\ IsSeparatorRow(row) ->
                         /\ TableEvents(events') = << [type |-> "TableSeparator"] >>
                         /\ table_state' = "Body"
                    [] table_state = "Header" /\ ~IsSeparatorRow(row) ->
                         table_state' = "Header"
                    [] table_state = "Body" ->
                         /\ TableEvents(events') = << [type |-> "TableRow", cells |-> RowCells(row)] >>
                         /\ table_state' = "Body"
        /\ Has(events', "TableSeparator")
           => ( table_state = "Header" /\ table_state' = "Body" /\ Count(events', "TableSeparator") = 1 )
        /\ Has(events', "TableRow") => ( table_state = "Body" /\ table_state' = "Body" )
        /\ ( table_state # "Body" /\ table_state' = "Body" ) => Has(events', "TableSeparator")
        /\ ( table_state = "Body" /\ table_state' # "Body" )
           => ( op' = "reset" \/ Has(events', "TableEnd") )
        /\ ( table_state # "Header" /\ table_state' = "Header" )
           => ( table_state = "None" /\ Has(events', "TableHeader") ) ]_vars

\* a separator-looking row has arrived in the Body phase: it is a TableRow
C18_Witness ==
    /\ op = "parse_line" /\ arg = LineSep
    /\ table_state = "Body" /\ opened.table
    /\ events = << [type |-> "TableRow", cells |-> << <<"-">>, <<"-">> >>] >>

\* C19: while links are disabled (set_process_links(false) was called and
\* links were not enabled again) no parse_line emits a Link event, and while
\* images are disabled no parse_line emits an Image event.
C19_TogglesOff ==
    [][ op' = "parse_line"
        => ( /\ ~state.links => ~Has(events', "Link")
             /\ ~state.images => ~Has(events', "Image") ) ]_vars

\* the events of parse_line for each of the lines in order, then those of finalize
LinesThenFinalize(self, lines) ==
    With(parse_lines(self, lines, <<>>, FALSE), LAMBDA r :
         r.all_events \o finalize(r.self).events)

\* text without its last character if that is c
WithoutLast(text, c) == IF text # <<>> /\ Last(text) = c THEN Front(text) ELSE text

\* the lines of a text: the pieces between its line feeds, where one line feed
\* at the very end of the text ends the last line and starts no new one, and a
\* carriage return right before a line feed belongs to the line ending
LinesOf(text) ==
    IF text = <<>> THEN <<>>
    ELSE LET pieces == Split(WithoutLast(text, "LF"), "LF")
             ended(i) == i < Len(pieces) \/ Last(text) = "LF"
         IN  [i \in 1..Len(pieces) |->
                 IF ended(i) THEN WithoutLast(pieces[i], "CR") ELSE pieces[i]]

\* C20 as stated: parse_document(text) returns the events of parse_line(l)
\* for each piece l of text split on '\n', in order, then those of finalize().
C20_SplitOnNewline ==
    [][ op' = "parse_document"
        => events' = LinesThenFinalize(Self, Split(arg', "LF")) ]_vars

\* C20, amended: parse_document(text) returns the events of parse_line(l) for
\* each line l of text, in order, then those of finalize(), where the lines
\* are the pieces between the line feeds, without an empty last piece after a
\* final line feed and without the carriage return of a CR LF line ending (an
\* empty text has no line).
C20_LinesThenFinalize ==
    [][ op' = "parse_document"
        => events' = LinesThenFinalize(Self, LinesOf(arg')) ]_vars

\* a document that ends with two line feeds has been parsed on a fresh
\* parser: one blank line is fed, not two, and finalize closes the list
C20_Witness ==
    /\ op = "parse_document" /\ arg = DocList
    /\ Count(events, "ListItem") = 1
    /\ Count(events, "EmptyLine") = 1
    /\ events[Len(events)].type = "ListEnd"

\* the events of a line of inline markup parsed by an inline parser that has
\* parsed nothing before
InlineEvents(line) ==
    parse_inline_content([Parser_new EXCEPT !.inline_parser.tokenizer = inline_parser.tokenizer],
                         line).events

\* the last n events of evs
LastEvents(evs, n) == SubSeq(evs, Len(evs) - n + 1, Len(evs))

\* C21: no inline formatting carries across lines. Whatever was parsed
\* before, the elements of a line of inline markup are those an unused
\* inline parser gives for that line alone, and after every call the inline
\* parser holds no toggle and no open code span.
C21_NoCarryOver ==
    [][ /\ inline_parser'.state = FormatState_new
        /\ op' = "parse_line" /\ arg' \in FormatLines
            => /\ Len(events') >= Len(InlineEvents(arg'))
               /\ LastEvents(events', Len(InlineEvents(arg'))) = InlineEvents(arg') ]_vars

\* a document whose first line opens bold and a code span that it never
\* closes has been parsed: its second line, which holds a backquote and a
\* strikeout marker of its own, and its third are formatted as on their own
C21_Witness ==
    /\ op = "parse_document" /\ arg = DocOpenAll
    /\ events = << [type |-> "BoldItalic", s |-> <<"a">>], [type |-> "Newline"],
                   [type |-> "Text", s |-> <<"a", " ">>],
                   [type |-> "Strikeout", s |-> <<"b">>], [type |-> "Newline"],
                   [type |-> "Text", s |-> <<"a", "_", "b", " ", "c">>], [type |-> "Newline"] >>

\* the tokens the inline parser is given for a line
TokensOf(line) == tokenize(inline_parser.tokenizer, line).tokens

\* the source text of a token
TokenSource(tok) ==
    CASE tok.type = "Text"      -> tok.s
      [] tok.type = "Backticks" -> Repeat("BQ", tok.n)
      [] tok.type = "Link"      -> <<"[">> \o tok.text \o <<"]", "(">> \o tok.url \o <<")">>
      [] tok.type = "Image"     -> <<"!", "[">> \o tok.alt \o <<"]", "(">> \o tok.url \o <<")">>
      [] tok.type = "Footnote"  -> <<"[", "^">> \o FormatNum(tok.num) \o <<"]">>
      [] OTHER                  -> marker_str(tok)

\* the position in the line of the first character of token i
RECURSIVE TokenStart(_, _)
TokenStart(tokens, i) ==
    IF i = 1 THEN 1 ELSE TokenStart(tokens, i - 1) + Len(TokenSource(tokens[i - 1]))

\* the loop state [fs, buffer, elements] of parse_tokens before token i
RECURSIVE StateBefore(_, _)
StateBefore(tokens, i) ==
    IF i = 1 THEN [fs |-> FormatState_new, buffer |-> <<>>, elements |-> <<>>]
    ELSE parse_token(tokens, i - 1, StateBefore(tokens, i - 1))

\* every token of the line parsed, outside a code span and of one of the
\* types, satisfies P(line, tokens, i, the state before it, the state after it)
EachToken(types, P(_, _, _, _, _)) ==
    op' = "parse_line" /\ arg' \in FormatLines
    => With(TokensOf(arg'), LAMBDA tokens :
            \A i \in 1..Len(tokens) :
                tokens[i].type \in types
                => With(StateBefore(tokens, i), LAMBDA st :
                        st.fs.code_backticks = 0
                        => P(arg', tokens, i, st, parse_token(tokens, i, st))))

\* the characters right before and right after position p of the line are
\* both alphanumeric
InsideWord(line, p) ==
    /\ p > 1 /\ IsAlnum(line[p - 1])
    /\ p < Len(line) /\ IsAlnum(line[p + 1])

EachCodeToken(P(_, _, _)) ==
    op' = "parse_line" /\ arg' \in FormatLines
    => With(TokensOf(arg'), LAMBDA tokens :
            \A i \in 1..Len(tokens) :
                With(StateBefore(tokens, i), LAMBDA st :
                     st.fs.code_backticks # 0
                     => P(tokens[i], st, parse_token(tokens, i, st))))

\* s without one leading and one trailing space
StripOneSpace(s) ==
    LET t == IF s # <<>> /\ Head(s) = " " THEN Tail(s) ELSE s
    IN  IF t # <<>> /\ Last(t) = " " THEN Front(t) ELSE t

\* C23: a backtick run of length n outside a code span opens one; inside the
\* span, the next run of exactly length n closes it and gives one Code
\* element, the captured text without one leading and one trailing space,
\* and every other token (text, markers, runs of other lengths, links,
\* images, footnotes) is added to the captured text as it stands in the line.
C23_CodeSpan ==
    [][ /\ EachToken({"Backticks"}, LAMBDA line, tokens, i, st, after :
               after.fs.code_backticks = tokens[i].n /\ after.fs.code_buffer = <<>>)
        /\ EachCodeToken(LAMBDA token, st, after :
               IF token.type = "Backticks" /\ token.n = st.fs.code_backticks
               THEN /\ after.elements = Append(st.elements,
                                                [type |-> "Code", s |-> StripOneSpace(st.fs.code_buffer)])
                    /\ after.fs.code_backticks = 0
               ELSE /\ after.fs.code_buffer = st.fs.code_buffer \o TokenSource(token)
                    /\ after.fs.code_backticks = st.fs.code_backticks
                    /\ after.elements = st.elements) ]_vars

\* the toggle a triple marker pairs with italic
PairedWith(token) == IF token.type = "TripleAsterisk" THEN "bold" ELSE "underline"

\* C24: '***' (outside a code span) flips bold and italic together when they
\* are both on or both off; when exactly one of them is on, no toggle changes
\* and the text "***" is put in the output as it is. The same for '___' with
\* underline and italic. In both cases only the text before it is ended.
C24_PairedToggles ==
    [][ EachToken({"TripleAsterisk", "TripleUnderscore"}, LAMBDA line, tokens, i, st, after :
            /\ after.elements = emit_formatted(st.fs, st.elements, st.buffer)
            /\ IF st.fs[PairedWith(tokens[i])] = st.fs.italic
               THEN /\ after.fs = [st.fs EXCEPT ![PairedWith(tokens[i])] = ~@, !.italic = ~@]
                    /\ after.buffer = <<>>
               ELSE /\ after.fs = st.fs
                    /\ after.buffer = SubSeq(line, TokenStart(tokens, i), TokenStart(tokens, i) + 2)
                    /\ after.buffer \in {<<"*", "*", "*">>, <<"_", "_", "_">>}) ]_vars

\* "**a***b" has been parsed: the '***' met with bold on and italic off is
\* text, and bold stays on
C24_Witness ==
    /\ op = "parse_line" /\ arg = LineMixed
    /\ events = << [type |-> "Bold", s |-> <<"a">>],
                   [type |-> "Bold", s |-> <<"*", "*", "*", "b">>], [type |-> "Newline"] >>

\* the texts of the code spans of a line, its links, images and footnotes
\* taken as plain text
CodeSpansOf(line) ==
    With(parse_tokens(FormatState_new, tokenize_inline(line)).elements, LAMBDA es :
         [i \in 1..Count(es, "Code") |-> EventsOfType(es, "Code")[i].s])

\* C25: a link, image or footnote inside an inline code span is not a token
\* of its own (so no Link, Image or Footnote element comes from it): the
\* Code elements of the line hold the text of its code spans as it stands in
\* the line, the text of such a link, image or footnote included.
C25_LiteralInCode ==
    [][ /\ EachCodeToken(LAMBDA token, st, after :
               token.type \notin {"Link", "Image", "Footnote"})
        /\ op' = "parse_line" /\ arg' \in FormatLines
            => [i \in 1..Count(events', "InlineCode") |-> EventsOfType(events', "InlineCode")[i].s]
               = CodeSpansOf(arg') ]_vars

-----------------------------------------------------------------------------
(* Properties of text_wrap *)

\* C2: a call of text_wrap with force_truncate = true returns: from every
\* position of such a call the function reaches its return, whatever the
\* text, the width (>= 1 or not) and the prefixes.
C2_TruncateTerminates == (tw.pc # "call" /\ tw.force_truncate) ~> (tw.pc = "done")

\* a word that cannot be broken and is wider than the width on its own
Unbreakable(t, ws) == Len(ws) = 1 /\ visible_length(ws[1]) > t.width

\* C3: every line text_wrap returns has a visible width (escapes removed,
\* wide characters counted 2, prefix and indent included) of at most the
\* requested width, unless force_truncate is false and the line holds a
\* single word wider than the width.
C3_WrapWidth ==
    tw.pc = "done" =>
        \A k \in 1..Len(tw.lines) :
            \/ visible_length(tw.lines[k]) <= tw.width
            \/ ~tw.force_truncate /\ Unbreakable(tw, tw.line_words[k])

-----------------------------------------------------------------------------
(* Properties of text_wrap on styled text *)

\* the escape codes of the first n words, in order
RECURSIVE CodesOfWords(_, _)
CodesOfWords(words, n) ==
    IF n = 0 THEN <<>> ELSE CodesOfWords(words, n - 1) \o extract_ansi_codes(words[n])

\* the index of the n-th word of non-zero visible width, from index i on
RECURSIVE NthVisibleFrom(_, _, _)
NthVisibleFrom(words, n, i) ==
    IF visible_length(words[i]) > 0
    THEN IF n = 1 THEN i ELSE NthVisibleFrom(words, n - 1, i + 1)
    ELSE NthVisibleFrom(words, n, i + 1)

RECURSIVE WordsOnLines(_, _)
WordsOnLines(line_words, k) ==
    IF k = 0 THEN 0 ELSE WordsOnLines(line_words, k - 1) + Len(line_words[k])

\* the index of the word that starts line k of the output
FirstWordOf(t, k) == NthVisibleFrom(t.words, WordsOnLines(t.line_words, k - 1) + 1, 1)

\* the style still active before word i: the codes of the words before it, collapsed
ActiveStyle(t, i) == Join(ansi_collapse(CodesOfWords(t.words, i - 1)), <<>>)

\* every continuation line of an untruncated result starts with the given
\* pieces, made from the result, the index of its first word and that word
ContinuationStarts(start(_, _, _)) ==
    tw.pc = "done" /\ ~tw.truncated
    => \A k \in 2..Len(tw.lines) :
           With(FirstWordOf(tw, k), LAMBDA i :
                StartsWith(tw.lines[k], start(tw, i, tw.words[i])))

Ink(s) == SelectSeq(visible(s), LAMBDA c : ~IsWs(c))

\* the visible characters, whitespace apart, of lines k.. of the result, each
\* line taken without its prefix
RECURSIVE InkOfLines(_, _)
InkOfLines(t, k) ==
    IF k > Len(t.lines) THEN <<>>
    ELSE Ink(SkipChars(t.lines[k], Len(IF k = 1 THEN t.first_prefix ELSE t.next_prefix)))
         \o InkOfLines(t, k + 1)

\* the result holds the visible text of the input, whitespace apart, once
\* and in order, and each word wider than the width alone on a line
NothingDropped(t) ==
    /\ InkOfLines(t, 1) = Ink(t.text)
    /\ \A i \in 1..Len(split_text(t.text)) :
           visible_length(split_text(t.text)[i]) > t.width
           => \E k \in 1..Len(t.lines) :
                  Ink(SkipChars(t.lines[k], Len(IF k = 1 THEN t.first_prefix ELSE t.next_prefix)))
                  = Ink(split_text(t.text)[i])

\* C27 as stated: with force_truncate = false text_wrap drops and reorders
\* nothing, whatever the width.
C27_NeverDrops ==
    tw.pc = "done" /\ ~tw.force_truncate => NothingDropped(tw)

\* C27, amended: with force_truncate = false and a width of at least 1,
\* every input word of non-zero visible width is in the output lines exactly
\* once and in input order, and a word wider than the width is on a line of
\* its own, whole. (With width 0 the result is empty.)
C27_NeverDropsAtWidth ==
    /\ tw.pc = "done" /\ ~tw.force_truncate /\ tw.width >= 1 => NothingDropped(tw)
    /\ tw.pc = "done" /\ tw.width = 0 => tw.lines = <<>>

\* "aESC[1mb cdefg" has been wrapped to width 4 without truncation: the
\* word of 5 columns is a line, whole
C27_Witness ==
    /\ tw.pc = "done" /\ ~tw.force_truncate /\ tw.text = TextBoldMid /\ tw.width = 4
    /\ tw.first_prefix = <<>> /\ tw.next_prefix = <<>> /\ tw.indent = 0 /\ tw.preserve_format
    /\ Len(tw.lines) = 2
    /\ tw.lines[2] = SgrBold \o <<"c", "d", "e", "f", "g">>

-----------------------------------------------------------------------------
(* Properties of ansi_collapse *)

\* the parameters of a well-formed SGR code (none written: the one parameter 0)
SgrParams(code) ==
    LET inner == SubSeq(code, 3, Len(code) - 1)
    IN  IF inner = <<>> THEN <<0>>
        ELSE [j \in 1..Len(Split(inner, ";")) |-> ParseNat(Split(inner, ";")[j])]

SgrDefault ==
    [bold |-> FALSE, dim |-> FALSE, italic |-> FALSE, underline |-> FALSE, strikeout |-> FALSE,
     fg |-> <<>>, bg |-> <<>>]

\* the SGR state after one parameter that is not a colour
SgrSet(st, v) ==
    CASE v = 0  -> SgrDefault
      [] v = 1  -> [st EXCEPT !.bold = TRUE]
      [] v = 2  -> [st EXCEPT !.dim = TRUE]
      [] v = 3  -> [st EXCEPT !.italic = TRUE]
      [] v = 4  -> [st EXCEPT !.underline = TRUE]
      [] v = 9  -> [st EXCEPT !.strikeout = TRUE]
      [] v = 22 -> [st EXCEPT !.bold = FALSE, !.dim = FALSE]
      [] v = 23 -> [st EXCEPT !.italic = FALSE]
      [] v = 24 -> [st EXCEPT !.underline = FALSE]
      [] v = 29 -> [st EXCEPT !.strikeout = FALSE]
      [] v = 39 -> [st EXCEPT !.fg = <<>>]
      [] v = 49 -> [st EXCEPT !.bg = <<>>]
      [] OTHER  -> st

\* the SGR state after the parameters ps: 38;2;r;g;b and 48;2;r;g;b are one
\* setting each
RECURSIVE SgrAfterParams(_, _)
SgrAfterParams(st, ps) ==
    IF ps = <<>> THEN st
    ELSE IF Head(ps) \in {38, 48} /\ Len(ps) >= 5 /\ ps[2] = 2
    THEN SgrAfterParams(IF Head(ps) = 38 THEN [st EXCEPT !.fg = <<ps[3], ps[4], ps[5]>>]
                                         ELSE [st EXCEPT !.bg = <<ps[3], ps[4], ps[5]>>],
                        SubSeq(ps, 6, Len(ps)))
    ELSE SgrAfterParams(SgrSet(st, Head(ps)), Tail(ps))

\* the SGR state after the codes, applied in order from the default state
RECURSIVE SgrAfter(_)
SgrAfter(codes) ==
    IF codes = <<>> THEN SgrDefault
    ELSE SgrAfterParams(SgrAfter(Front(codes)), SgrParams(Last(codes)))

\* C28: the codes ansi_collapse returns give, applied from the default
\* state, the state the input codes give; no code is returned when that
\* state is the default one, as it is after a final reset, and no state is
\* rebuilt by more than one attribute code and one code per colour.
C28_SameSgrState ==
    ac.pc = "returned"
    => /\ SgrAfter(ac.result) = SgrAfter(ac.code_list)
       /\ SgrAfter(ac.code_list) = SgrDefault => ac.result = <<>>
       /\ ac.code_list # <<>> /\ Last(ac.code_list) \in {Sgr(<<"0">>), Sgr(<<>>)}
              => ac.result = <<>>
       /\ Len(ac.result) <= 3

\* bold, then a foreground colour, then 22 and another foreground colour:
\* the result is the last colour alone
C28_Witness ==
    /\ ac.pc = "returned"
    /\ ac.code_list = << Sgr(<<"1">>), Sgr(<<"3", "8", ";", "2", ";", "1", ";", "2", ";", "3">>),
                         Sgr(<<"2", "2">>) >>
    /\ ac.result = << Sgr(<<"3", "8", ";", "2", ";", "1", ";", "2", ";", "3">>) >>

-----------------------------------------------------------------------------
\* The plugin system (streamdown-plugin): PluginManager and its plugins

\* Option<ProcessResult> of Plugin::process_line
PNone == [kind |-> "None", lines |-> <<>>]
Continue == [kind |-> "Continue", lines |-> <<>>]
PLines(ls) == [kind |-> "Lines", lines |-> ls]

\* str::find : the position (from 1) of the first occurrence of t in s, 0 when there is none
FindStr(s, t) ==
    IF Contains(s, t) THEN CHOOSE p \in 1..Len(s) : At(s, p, t) /\ \A q \in 1..(p - 1) : ~At(s, q, t)
    ELSE 0

\* the tables of latex.rs, on the characters the lines below use
\* ("PI" is the letter pi, "SUP2" and "SUPX" the superscripts of 2 and x)
GREEK_LETTERS == [c \in {<<"p", "i">>} |-> "PI"]
SUPERSCRIPT_CHARS == [c \in {"2", "x"} |-> IF c = "2" THEN "SUP2" ELSE "SUPX"]
AsciiLetters == {"a", "b", "c", "e", "h", "i", "n", "o", "p", "r", "s", "t", "x", "y", "d"}

\* CMD_RE = \\([a-zA-Z]+) : a known command is replaced, an unknown one kept
RECURSIVE convert_commands(_)
convert_commands(input) ==
    IF input = <<>> THEN <<>>
    ELSE IF Head(input) = "\\" /\ RunLen(input, 2, AsciiLetters) >= 1
    THEN LET n == RunLen(input, 2, AsciiLetters)
             cmd == SubSeq(input, 2, n + 1)
         IN  (IF cmd \in DOMAIN GREEK_LETTERS THEN <<GREEK_LETTERS[cmd]>> ELSE <<"\\">> \o cmd)
             \o convert_commands(SkipChars(input, n + 1))
    ELSE <<Head(input)>> \o convert_commands(Tail(input))

\* SINGLE_SUP_RE = \^([0-9a-z]) (the braced form needs a brace, which no line here has)
RECURSIVE convert_superscripts(_)
convert_superscripts(input) ==
    IF input = <<>> THEN <<>>
    ELSE IF Head(input) = "^" /\ Len(input) >= 2 /\ input[2] \in (AsciiLetters \cup {"2"})
    THEN (IF input[2] \in DOMAIN SUPERSCRIPT_CHARS THEN <<SUPERSCRIPT_CHARS[input[2]]>>
          ELSE <<"^", input[2]>>)
         \o convert_superscripts(SkipChars(input, 2))
    ELSE <<Head(input)>> \o convert_superscripts(Tail(input))

\* the brace replacements of cleanup find nothing in a text without braces; trim remains
cleanup(input) == Trim(input)

\* latex_to_unicode: commands, fractions and subscripts (both need a brace or an
\* underscore to act), superscripts, cleanup
latex_to_unicode(latex) == cleanup(convert_superscripts(convert_commands(latex)))

\* INLINE_RE = \$([^$]+)\$ , replace_all
RECURSIVE convert_inline_math(_)
convert_inline_math(line) ==
    LET starts == {p \in 1..Len(line) :
                      /\ line[p] = "$"
                      /\ RunOutside(line, p + 1, {"$"}) >= 1
                      /\ p + RunOutside(line, p + 1, {"$"}) < Len(line)}
    IN  IF starts = {} THEN line
        ELSE LET p == CHOOSE q \in starts : \A r \in starts : q <= r
                 n == RunOutside(line, p + 1, {"$"})
             IN  SubSeq(line, 1, p - 1) \o latex_to_unicode(SubSeq(line, p + 1, p + n))
                     \o convert_inline_math(SkipChars(line, p + n + 1))

Dollars == <<"$", "$">>

\* LatexPlugin::new
LatexPlugin_new == [name |-> "latex", priority |-> 10, in_block |-> FALSE, buffer |-> <<>>]

\* <LatexPlugin as Plugin>::process_line
LatexPlugin_process_line(self, line) ==
    IF ~self.in_block /\ Contains(line, <<"$">>) /\ ~Contains(line, Dollars)
          /\ convert_inline_math(line) # line
    THEN [plugin |-> self, result |-> PLines(<<convert_inline_math(line)>>)]
    ELSE IF ~self.in_block
    THEN IF Contains(line, Dollars)
         THEN LET after == SkipChars(line, FindStr(line, Dollars) + 1)
              IN  IF Contains(after, Dollars)
                  THEN [plugin |-> [self EXCEPT !.in_block = FALSE, !.buffer = <<>>],
                        result |-> PLines(<<latex_to_unicode(
                                       SubSeq(after, 1, FindStr(after, Dollars) - 1))>>)]
                  ELSE [plugin |-> [self EXCEPT !.in_block = TRUE, !.buffer = after],
                        result |-> Continue]
         ELSE [plugin |-> self, result |-> PNone]
    ELSE IF Contains(line, Dollars)
    THEN [plugin |-> [self EXCEPT !.in_block = FALSE, !.buffer = <<>>],
          result |-> PLines(<<latex_to_unicode(
                         self.buffer \o SubSeq(line, 1, FindStr(line, Dollars) - 1))>>)]
    ELSE [plugin |-> [self EXCEPT !.buffer =
                         (IF self.buffer # <<>> THEN self.buffer \o <<" ">> ELSE <<>>) \o line],
          result |-> Continue]

\* <LatexPlugin as Plugin>::flush : an empty buffer returns before in_block is cleared
LatexPlugin_flush(self) ==
    IF self.buffer = <<>> THEN [plugin |-> self, lines |-> None]
    ELSE [plugin |-> [self EXCEPT !.buffer = <<>>, !.in_block = FALSE],
          lines |-> Some(<<Dollars \o <<" ">> \o self.buffer \o <<" ", "(incomplete)">>>>)]

\* <LatexPlugin as Plugin>::reset
LatexPlugin_reset(self) == [self EXCEPT !.in_block = FALSE, !.buffer = <<>>]

\* the plugins of the crate's tests
EchoPrefix == <<"!", "e", "c", "h", "o", " ">>
LineStart == <<"!", "s", "t", "a", "r", "t">>
LineEnd == <<"!", "e", "n", "d">>

EchoPlugin_new == [name |-> "echo", priority |-> 0]

\* <EchoPlugin as Plugin>::process_line
EchoPlugin_process_line(self, line) ==
    IF StartsWith(line, EchoPrefix)
    THEN [plugin |-> self, result |-> PLines(<<SkipChars(line, 6)>>)]
    ELSE [plugin |-> self, result |-> PNone]

\* BufferPlugin::new
BufferPlugin_new == [name |-> "buffer", priority |-> 0, buffer |-> <<>>, active |-> FALSE]

\* <BufferPlugin as Plugin>::process_line
BufferPlugin_process_line(self, line) ==
    IF line = LineStart
    THEN [plugin |-> [self EXCEPT !.active = TRUE, !.buffer = <<>>], result |-> Continue]
    ELSE IF ~self.active THEN [plugin |-> self, result |-> PNone]
    ELSE IF line = LineEnd
    THEN [plugin |-> [self EXCEPT !.active = FALSE, !.buffer = <<>>],
          result |-> PLines(self.buffer)]
    ELSE [plugin |-> [self EXCEPT !.buffer = Append(@, line)], result |-> Continue]

\* <BufferPlugin as Plugin>::flush
BufferPlugin_flush(self) ==
    IF self.buffer = <<>> THEN [plugin |-> self, lines |-> None]
    ELSE [plugin |-> [self EXCEPT !.buffer = <<>>], lines |-> Some(self.buffer)]

\* <BufferPlugin as Plugin>::reset
BufferPlugin_reset(self) == [self EXCEPT !.buffer = <<>>, !.active = FALSE]

\* dyn Plugin : the call goes to the implementation of the plugin's type
Plugin_process_line(p, line) ==
    CASE p.name = "latex" -> LatexPlugin_process_line(p, line)
      [] p.name = "echo" -> EchoPlugin_process_line(p, line)
      [] p.name = "buffer" -> BufferPlugin_process_line(p, line)

Plugin_flush(p) ==
    CASE p.name = "latex" -> LatexPlugin_flush(p)
      [] p.name = "echo" -> [plugin |-> p, lines |-> None]
      [] p.name = "buffer" -> BufferPlugin_flush(p)

Plugin_reset(p) ==
    CASE p.name = "latex" -> LatexPlugin_reset(p)
      [] p.name = "echo" -> p
      [] p.name = "buffer" -> BufferPlugin_reset(p)

\* PluginManager::new ; active_plugin holds the position (from 1) of the active plugin
PluginManager_new == [plugins |-> <<>>, active_plugin |-> None]

\* slice::sort_by_key(|p| p.priority()) after a push: the sort is stable, so the new
\* plugin goes behind every plugin whose priority is not greater than its own
RECURSIVE sort_by_key_pushed(_, _)
sort_by_key_pushed(plugins, plugin) ==
    IF plugins = <<>> THEN <<plugin>>
    ELSE IF Head(plugins).priority <= plugin.priority
    THEN <<Head(plugins)>> \o sort_by_key_pushed(Tail(plugins), plugin)
    ELSE <<plugin>> \o plugins

\* PluginManager::register (active_plugin is left as it is)
register(self, plugin) == [self EXCEPT !.plugins = sort_by_key_pushed(@, plugin)]

\* PluginManager::with_builtins
PluginManager_with_builtins == register(PluginManager_new, LatexPlugin_new)

\* the loop of PluginManager::process_line over the plugins from position idx on;
\* offered lists the plugins that were given the line, in order
RECURSIVE try_each(_, _, _, _)
try_each(self, idx, line, offered) ==
    IF idx > Len(self.plugins) THEN [pm |-> self, ret |-> None, offered |-> offered, answer |-> PNone]
    ELSE LET r == Plugin_process_line(self.plugins[idx], line)
             asked == [self EXCEPT !.plugins[idx] = r.plugin]
             names == Append(offered, self.plugins[idx].name)
         IN  CASE r.result.kind = "Lines" ->
                    [pm |-> asked, ret |-> Some(r.result.lines), offered |-> names,
                     answer |-> r.result]
               [] r.result.kind = "Continue" ->
                    [pm |-> [asked EXCEPT !.active_plugin = Some(idx)], ret |-> Some(<<>>),
                     offered |-> names, answer |-> r.result]
               [] OTHER -> try_each(asked, idx + 1, line, names)

\* PluginManager::process_line
PluginManager_process_line(self, line) ==
    IF self.active_plugin.is_some
    THEN LET idx == self.active_plugin.v
             r == Plugin_process_line(self.plugins[idx], line)
             asked == [self EXCEPT !.plugins[idx] = r.plugin]
             names == <<self.plugins[idx].name>>
         IN  CASE r.result.kind = "Lines" ->
                    [pm |-> [asked EXCEPT !.active_plugin = None], ret |-> Some(r.result.lines),
                     offered |-> names, answer |-> r.result]
               [] r.result.kind = "Continue" ->
                    [pm |-> asked, ret |-> Some(<<>>), offered |-> names, answer |-> r.result]
               [] OTHER -> try_each([asked EXCEPT !.active_plugin = None], 1, line, names)
    ELSE try_each(self, 1, line, <<>>)

\* PluginManager::flush from position idx on
RECURSIVE flush_each(_, _, _)
flush_each(self, idx, result) ==
    IF idx > Len(self.plugins) THEN [pm |-> [self EXCEPT !.active_plugin = None], result |-> result]
    ELSE LET r == Plugin_flush(self.plugins[idx])
         IN  flush_each([self EXCEPT !.plugins[idx] = r.plugin], idx + 1,
                        IF r.lines.is_some THEN result \o r.lines.v ELSE result)

\* PluginManager::flush
PluginManager_flush(self) == flush_each(self, 1, <<>>)

\* PluginManager::reset
PluginManager_reset(self) ==
    [self EXCEPT !.plugins = [i \in 1..Len(@) |-> Plugin_reset(@[i])], !.active_plugin = None]

\* PluginManager::has_active_plugin
has_active_plugin(self) == self.active_plugin.is_some

\* PluginManager::plugin_names
plugin_names(self) == [i \in 1..Len(self.plugins) |-> self.plugins[i].name]

-----------------------------------------------------------------------------
\* The plugin manager fed with lines

\* characters a LatexPlugin buffer, lines a BufferPlugin buffer may hold before a call
MaxBufferChars == 5
MaxBufferLines == 1

PlugPlain == <<"x">>
PlugDelim == Dollars
PlugOpen == <<"$", "$", "x", "^", "2">>
PlugClose == <<"y", "$", "$">>
PlugBlock == <<"$", "$", "\\", "p", "i", "$", "$">>
PlugInline == <<"a", " ", "$", "x", "^", "2", "$">>
PlugCost == <<"$", "2">>
PlugEcho == EchoPrefix \o <<"a">>

PluginLines ==
    {PlugPlain, PlugDelim, PlugOpen, PlugClose, PlugBlock, PlugInline, PlugCost, PlugEcho,
     LineStart, LineEnd}

NewPlugins == {LatexPlugin_new, EchoPlugin_new, BufferPlugin_new}

\* pm.m is the PluginManager; op, line, ret, offered and answer record the last call,
\* holder the plugin whose last answer was Continue ("" when there is none)
Manager(m, opname, line, ret, offered, answer, holder) ==
    [pc |-> "ready", m |-> m, op |-> opname, line |-> line, ret |-> ret,
     offered |-> offered, answer |-> answer, holder |-> holder]

InitPlugin ==
    /\ ParserFresh
    /\ tw = Idle /\ ac = Idle /\ cli = Idle
    /\ \E m \in {PluginManager_new, PluginManager_with_builtins} :
          pm = Manager(m, "new", <<>>, None, <<>>, PNone, "")

Register(plugin) ==
    /\ pm.pc = "ready"
    /\ plugin.name \notin {pm.m.plugins[i].name : i \in 1..Len(pm.m.plugins)}
    /\ pm' = Manager(register(pm.m, plugin), "register", <<>>, None, <<>>, PNone, pm.holder)
    /\ UNCHANGED <<parser_vars, tw, ac, cli>>

PluginProcessLine(line) ==
    /\ pm.pc = "ready"
    /\ \A i \in 1..Len(pm.m.plugins) :
          /\ pm.m.plugins[i].name = "latex" => Len(pm.m.plugins[i].buffer) <= MaxBufferChars
          /\ pm.m.plugins[i].name = "buffer" => Len(pm.m.plugins[i].buffer) <= MaxBufferLines
    /\ LET r == PluginManager_process_line(pm.m, line)
       IN  pm' = Manager(r.pm, "process_line", line, r.ret, r.offered, r.answer,
                         IF r.answer.kind = "Continue" THEN Last(r.offered) ELSE "")
    /\ UNCHANGED <<parser_vars, tw, ac, cli>>

PluginFlush ==
    /\ pm.pc = "ready"
    /\ LET r == PluginManager_flush(pm.m)
       IN  pm' = Manager(r.pm, "flush", <<>>, Some(r.result), <<>>, PNone, "")
    /\ UNCHANGED <<parser_vars, tw, ac, cli>>

PluginReset ==
    /\ pm.pc = "ready"
    /\ pm' = Manager(PluginManager_reset(pm.m), "reset", <<>>, None, <<>>, PNone, "")
    /\ UNCHANGED <<parser_vars, tw, ac, cli>>

NextPlugin ==
    \/ \E plugin \in NewPlugins : Register(plugin)
    \/ \E line \in PluginLines : PluginProcessLine(line)
    \/ PluginFlush
    \/ PluginReset

SpecPlugin == InitPlugin /\ [][NextPlugin]_vars

-----------------------------------------------------------------------------
\* The parser built by either constructor, then fed, toggled and reset

\* Tokenizer::with_settings inside InlineParser::with_settings
InlineParser_with_settings(process_links, process_images) ==
    [tokenizer |-> [process_links |-> process_links, process_images |-> process_images],
     state |-> FormatState_new,
     process_links |-> process_links, process_images |-> process_images]

\* Parser::with_state
Parser_with_state(st) ==
    [state              |-> st,
     inline_parser      |-> InlineParser_with_settings(st.links, st.images),
     code_fence         |-> <<>>,
     table_state        |-> "None",
     events             |-> <<>>,
     prev_was_empty     |-> FALSE,
     list_pending_close |-> FALSE,
     panicked           |-> FALSE]

\* the states handed to with_state: a new ParseState with its three switches set
CustomStates ==
    {[ParseState_new EXCEPT !.links = l, !.images = i, !.code_spaces = c] :
        l \in BOOLEAN, i \in BOOLEAN, c \in BOOLEAN}

ResetLines == {LineBlank, LineText, LineLink, LineImage, LineBullet, LineFence, LineSpaceCode}

InitReset ==
    /\ \E self \in {Parser_new} \cup {Parser_with_state(st) : st \in CustomStates} :
          /\ state = self.state
          /\ inline_parser = self.inline_parser
          /\ code_fence = self.code_fence
          /\ table_state = self.table_state
          /\ events = self.events
          /\ prev_was_empty = self.prev_was_empty
          /\ list_pending_close = self.list_pending_close
          /\ panicked = self.panicked
    /\ op = "new" /\ arg = <<>>
    /\ taken = <<>> /\ opened = NothingOpen /\ last_blank = FALSE
    /\ tw = Idle /\ ac = Idle /\ pm = Idle /\ cli = Idle

NextReset ==
    \/ \E line \in ResetLines : ParseLine(line)
    \/ \E enabled \in BOOLEAN : SetProcessLinks(enabled)
    \/ \E enabled \in BOOLEAN : SetProcessImages(enabled)
    \/ \E enabled \in BOOLEAN : SetCodeSpaces(enabled)
    \/ Finalize
    \/ Reset

SpecReset == InitReset /\ [][NextReset]_vars

-----------------------------------------------------------------------------
\* The parser given every short line of marker characters

MaxTokenLen == 3

TokenChars == {"a", "~", "*", "_", "BQ"}

\* a line that starts no block: a new parser is left as it was, but for its events,
\* the indent of its first line and the record of the last line being empty
IsInlineLine(line) ==
    With(parse_line(Parser_new, line), LAMBDA self :
         /\ ~self.panicked
         /\ [self.state EXCEPT !.first_indent = None, !.last_line_empty = TRUE] = Parser_new.state
         /\ \A i \in 1..Len(self.events) : self.events[i].type # "HorizontalRule")

TokenLines ==
    {line \in UNION {[1..n -> TokenChars] : n \in 1..MaxTokenLen} : IsInlineLine(line)}
        \cup {LineLink, LineImage, LineNote}

NextTokens ==
    \/ \E line \in TokenLines : ParseLine(line)
    \/ \E enabled \in BOOLEAN : SetProcessLinks(enabled)
    \/ \E enabled \in BOOLEAN : SetProcessImages(enabled)
    \/ Reset

SpecTokens == Init /\ [][NextTokens]_vars

-----------------------------------------------------------------------------
\* The renderer (streamdown-render) and the command line program (src/main.rs)

\* Renderer::new : the context a renderer keeps between events
\* (list_state holds the indents of ListState.stack)
Renderer_new ==
    [code_language    |-> [is_some |-> FALSE, v |-> <<>>],
     table_state      |-> [is_header |-> TRUE, num_columns |-> 0],
     list_state       |-> <<>>,
     in_blockquote    |-> FALSE,
     blockquote_depth |-> 0]

\* Renderer::left_margin / current_width : the number of blockquote borders in front
left_margin(r) == IF r.in_blockquote THEN r.blockquote_depth ELSE 0

\* ListState::adjust_for_indent
RECURSIVE adjust_pop(_, _)
adjust_pop(stack, indent) ==
    IF stack # <<>> /\ Last(stack) > indent THEN adjust_pop(Front(stack), indent) ELSE stack

adjust_for_indent(stack, indent) ==
    LET popped == adjust_pop(stack, indent)
    IN  IF popped = <<>> \/ indent > Last(popped) THEN Append(popped, indent) ELSE popped

\* what is written for an event, as far as it depends on the renderer's context:
\* the margin in front, the language a code line is highlighted in, the header
\* phase of a table row and the nesting level of a list item (under a table
\* separator, the number of columns of the table)
Written(ev, margin, lang, header, level) ==
    [type |-> ev.type, margin |-> margin, lang |-> lang, header |-> header, level |-> level]

\* Renderer::render_event : [r, out], the renderer after the event and what it wrote
render_event(r, ev) ==
    LET t == ev.type
        m == left_margin(r)
    IN  CASE t = "CodeBlockStart" ->
                [r |-> [r EXCEPT !.code_language = ev.language],
                 out |-> Written(ev, m, <<>>, FALSE, 0)]
          [] t = "CodeBlockLine" ->
                [r |-> r,
                 out |-> Written(ev, m, IF r.code_language.is_some THEN r.code_language.v
                                        ELSE <<"t", "e", "x", "t">>, FALSE, 0)]
          [] t = "CodeBlockEnd" ->
                [r |-> [r EXCEPT !.code_language = [is_some |-> FALSE, v |-> <<>>]],
                 out |-> Written(ev, m, <<>>, FALSE, 0)]
          [] t = "ListItem" ->
                LET stack == adjust_for_indent(r.list_state, ev.indent)
                IN  [r |-> [r EXCEPT !.list_state = stack],
                     out |-> Written(ev, m, <<>>, FALSE, Len(stack) - 1)]
          [] t = "ListEnd" ->
                [r |-> [r EXCEPT !.list_state = <<>>], out |-> Written(ev, 0, <<>>, FALSE, 0)]
          [] t = "TableHeader" ->
                [r |-> [r EXCEPT !.table_state = [is_header |-> TRUE, num_columns |-> Len(ev.cells)]],
                 out |-> Written(ev, m, <<>>, TRUE, 0)]
          [] t = "TableRow" ->
                [r |-> [r EXCEPT !.table_state.num_columns = Len(ev.cells)],
                 out |-> Written(ev, m, <<>>, r.table_state.is_header, 0)]
          [] t = "TableSeparator" ->
                [r |-> [r EXCEPT !.table_state.is_header = FALSE],
                 out |-> Written(ev, m, <<>>, FALSE, r.table_state.num_columns)]
          [] t = "TableEnd" ->
                [r |-> [r EXCEPT !.table_state = [is_header |-> TRUE, num_columns |-> 0]],
                 out |-> Written(ev, 0, <<>>, FALSE, 0)]
          [] t = "BlockquoteStart" ->
                [r |-> [r EXCEPT !.in_blockquote = TRUE, !.blockquote_depth = ev.depth],
                 out |-> Written(ev, 0, <<>>, FALSE, 0)]
          [] t = "BlockquoteEnd" ->
                [r |-> [r EXCEPT !.in_blockquote = FALSE, !.blockquote_depth = 0],
                 out |-> Written(ev, 0, <<>>, FALSE, 0)]
          [] t = "ThinkBlockStart" ->
                [r |-> [r EXCEPT !.in_blockquote = TRUE, !.blockquote_depth = 1],
                 out |-> Written(ev, 0, <<>>, FALSE, 0)]
          [] t = "ThinkBlockEnd" ->
                [r |-> [r EXCEPT !.in_blockquote = FALSE, !.blockquote_depth = 0],
                 out |-> Written(ev, 0, <<>>, FALSE, 0)]
          [] t \in {"Heading", "BlockquoteLine", "HorizontalRule"} ->
                [r |-> r, out |-> Written(ev, m, <<>>, FALSE, 0)]
          [] OTHER -> [r |-> r, out |-> Written(ev, 0, <<>>, FALSE, 0)]

\* Renderer::render, and the loop of emit_line : [r, out]
RECURSIVE render(_, _, _)
render(r, evs, out) ==
    IF evs = <<>> THEN [r |-> r, out |-> out]
    ELSE With(render_event(r, Head(evs)), LAMBDA x : render(x.r, Tail(evs), Append(out, x.out)))

LineSubBullet == <<" ", " ", "-", " ", "c">>

\* the number of lines the program reads before its input ends
MaxCliLines == 4

\* the lines on the program's input
CliLines ==
    {LineBlank, LineText, LineFence, LineFenceLang, LineQuote, LineBullet, LineSubBullet,
     LineRow, LineSep, PlugDelim, PlugInline, PlugCost}

\* run_stdin up to its loop: a new parser, the built-in plugins; `one` is a single
\* renderer that is given every event of the parser, `whole` what it writes for the
\* events of the last line, `written` what the program wrote for the last line
InitCli ==
    /\ ParserFresh
    /\ tw = Idle /\ ac = Idle
    /\ pm = Manager(PluginManager_with_builtins, "new", <<>>, None, <<>>, PNone, "")
    /\ cli = [pc |-> "reading", n |-> 0, by |-> "none", line |-> <<>>,
              one |-> Renderer_new, written |-> <<>>, whole |-> <<>>]

\* what the program writes for the lines a plugin hands back
PluginWritten(ls) == [i \in 1..Len(ls) |-> [type |-> "PluginLine", s |-> ls[i]]]

\* emit_line with a renderer made for this line: the parser step and what is written
CliParse(line) ==
    /\ \E self \in {parse_line(Self, line)} :
           /\ Install(self)
           /\ taken' = TakenAfter(taken, state.list_item_stack, self)
           /\ opened' = OpenedAfter(opened, self.events)
           /\ cli' = [cli EXCEPT !.by = "parser", !.line = line, !.n = cli.n + 1,
                                 !.one = render(cli.one, self.events, <<>>).r,
                                 !.whole = render(cli.one, self.events, <<>>).out,
                                 !.written = render(Renderer_new, self.events, <<>>).out]
    /\ last_blank' = (Trim(line) = <<>> /\ OutsideBlocks(Self))
    /\ op' = "parse_line" /\ arg' = line

\* one turn of the loop of run_stdin (run_files and run_exec do the same per line):
\* the plugins are asked first, with a ParseState::new() that is never updated
CliLine(line) ==
    /\ cli.pc = "reading"
    /\ cli.n < MaxCliLines
    /\ ~panicked
    /\ \A i \in 1..Len(state.ordered_list_numbers) : state.ordered_list_numbers[i] <= MaxNum
    /\ \A i \in 1..Len(taken) : taken[i] <= MaxNum
    /\ \A i \in 1..Len(pm.m.plugins) : Len(pm.m.plugins[i].buffer) <= MaxBufferChars
    /\ LET r == PluginManager_process_line(pm.m, line)
       IN  /\ pm' = Manager(r.pm, "process_line", line, r.ret, r.offered, r.answer,
                            IF r.answer.kind = "Continue" THEN Last(r.offered) ELSE "")
           /\ IF r.ret.is_some
              THEN /\ cli' = [cli EXCEPT !.by = "plugin", !.line = line, !.n = cli.n + 1,
                                         !.written = PluginWritten(r.ret.v),
                                         !.whole = PluginWritten(r.ret.v)]
                   /\ UNCHANGED parser_vars
              ELSE CliParse(line)
    /\ UNCHANGED <<tw, ac>>

\* the end of run_stdin: the input has ended, the plugins are flushed
CliEof ==
    /\ cli.pc = "reading"
    /\ LET r == PluginManager_flush(pm.m)
       IN  /\ pm' = Manager(r.pm, "flush", <<>>, Some(r.result), <<>>, PNone, "")
           /\ cli' = [cli EXCEPT !.pc = "done", !.by = "eof", !.line = <<>>,
                                 !.written = PluginWritten(r.result),
                                 !.whole = PluginWritten(r.result)]
    /\ UNCHANGED <<parser_vars, tw, ac>>

NextCli ==
    \/ \E line \in CliLines : CliLine(line)
    \/ CliEof

SpecCli == InitCli /\ [][NextCli]_vars

-----------------------------------------------------------------------------
\* Properties of the plugin manager

\* the name of the plugin the manager holds active ("" when there is none)
active_plugin_name(self) ==
    IF self.active_plugin.is_some THEN self.plugins[self.active_plugin.v].name ELSE ""

\* C29: a plugin that answers Continue becomes the active plugin; the next line is
\* offered to it first, and while it answers Continue or Lines to no other plugin and
\* process_line returns Some; on Lines those lines are returned and no plugin is active
C29_ActiveHasPriority ==
    [][pm'.op = "process_line" =>
          /\ pm'.answer.kind = "Continue" =>
                /\ active_plugin_name(pm'.m) = Last(pm'.offered)
                /\ pm'.ret.is_some /\ pm'.ret.v = <<>>
          /\ pm.holder # "" =>
                /\ pm'.offered # <<>>
                /\ pm'.offered[1] = pm.holder
                /\ pm'.answer.kind \in {"Continue", "Lines"} =>
                      /\ pm'.offered = <<pm.holder>>
                      /\ pm'.ret.is_some
                /\ pm'.answer.kind = "Lines" =>
                      /\ pm'.ret.is_some /\ pm'.ret.v = pm'.answer.lines
                      /\ ~has_active_plugin(pm'.m)]_vars

\* what Plugin::flush hands back for a plugin: its buffered content, nothing for an empty buffer
Buffered(p) ==
    CASE p.name = "latex" ->
            IF p.buffer = <<>> THEN <<>>
            ELSE <<Dollars \o <<" ">> \o p.buffer \o <<" ", "(incomplete)">>>>
      [] p.name = "buffer" -> p.buffer
      [] OTHER -> <<>>

RECURSIVE BufferedInOrder(_)
BufferedInOrder(plugins) ==
    IF plugins = <<>> THEN <<>> ELSE Buffered(Head(plugins)) \o BufferedInOrder(Tail(plugins))

InPriorityOrder(plugins) ==
    \A i \in 1..Len(plugins) : \A j \in i..Len(plugins) : plugins[i].priority <= plugins[j].priority

\* a line no registered plugin reacts to when none of them is in the middle of something
TriggersNoPlugin(self, line) ==
    ~PluginManager_process_line(PluginManager_reset(self), line).ret.is_some

\* C30: flush returns the buffered content of all plugins in priority order and leaves
\* no plugin active or buffering: has_active_plugin is false after it, and a following
\* line that triggers no plugin is passed through (process_line returns None)
C30_FlushLeavesNothing ==
    [][/\ pm'.op = "flush" =>
             /\ InPriorityOrder(pm.m.plugins)
             /\ pm'.ret.is_some /\ pm'.ret.v = BufferedInOrder(pm.m.plugins)
             /\ ~has_active_plugin(pm'.m)
       /\ (pm.op = "flush" /\ pm'.op = "process_line" /\ TriggersNoPlugin(pm.m, pm'.line)) =>
             ~pm'.ret.is_some]_vars

\* the part of C30 about the flush call itself
C30_FlushCall ==
    [][pm'.op = "flush" =>
          /\ InPriorityOrder(pm.m.plugins)
          /\ pm'.ret.is_some /\ pm'.ret.v = BufferedInOrder(pm.m.plugins)
          /\ ~has_active_plugin(pm'.m)]_vars

-----------------------------------------------------------------------------
\* Properties of the parser state

\* C31: in every reachable state the list stack is well-formed: the indents of its
\* entries increase strictly from bottom to top, and there is exactly one ordered
\* counter per Ordered entry
C31_ListStackWellFormed ==
    /\ \A i \in 1..Len(state.list_item_stack) : \A j \in (i + 1)..Len(state.list_item_stack) :
          state.list_item_stack[i].indent < state.list_item_stack[j].indent
    /\ Len(state.ordered_list_numbers) =
          Cardinality({i \in 1..Len(state.list_item_stack) :
                          state.list_item_stack[i].type = "Ordered"})

\* a nested list of two levels, one Bullet and one Ordered, after a line was parsed
C31_Witness ==
    /\ op = "parse_line"
    /\ Len(state.list_item_stack) = 2
    /\ state.list_item_stack[1].type = "Bullet"
    /\ state.list_item_stack[2].type = "Ordered"
    /\ Len(state.ordered_list_numbers) = 1

\* C32: list_pending_close is true only while a list is open and only between a blank
\* line and the next non-blank line dispatched; a pending close with no open list is
\* unreachable under parse_line, finalize and reset
C32_PendingOnlyInList ==
    list_pending_close =>
        /\ state.list_item_stack # <<>>
        /\ state.in_list
        /\ last_blank
        /\ prev_was_empty

\* a blank line after a list item has left the close pending
C32_Witness ==
    /\ op = "parse_line" /\ IsBlank(arg)
    /\ list_pending_close
    /\ state.list_item_stack # <<>>

-----------------------------------------------------------------------------
\* Properties of the event stream

\* the events evs, met with o open, keep the blocks of the kinds in K bracketed:
\* a Start only while the kind is closed, an End or a Line only while it is open
RECURSIVE Bracketed(_, _, _)
Bracketed(K, o, evs) ==
    IF evs = <<>> THEN TRUE
    ELSE LET t == Head(evs).type
         IN  /\ "CodeBlock" \in K =>
                   /\ t = "CodeBlockStart" => ~o.code
                   /\ t \in {"CodeBlockEnd", "CodeBlockLine"} => o.code
             /\ "ThinkBlock" \in K =>
                   /\ t = "ThinkBlockStart" => ~o.think
                   /\ t \in {"ThinkBlockEnd", "ThinkBlockLine"} => o.think
             /\ Bracketed(K, OpenedAfter(o, <<Head(evs)>>), Tail(evs))

\* the events of every call keep the kinds in K bracketed, and finalize leaves none open
BracketedStep(K) ==
    op' \in {"parse_line", "finalize"} =>
        /\ Bracketed(K, opened, events')
        /\ op' = "finalize" =>
              /\ "CodeBlock" \in K => ~opened'.code
              /\ "ThinkBlock" \in K => ~opened'.think

\* C33: in the events of parse_line calls followed by finalize, CodeBlock and ThinkBlock
\* events are well-bracketed: Start and End alternate beginning with Start, every Start
\* is followed by exactly one End, and Line events occur only between a Start and its End
C33_WellBracketed == [][BracketedStep({"CodeBlock", "ThinkBlock"})]_vars

\* the part of C33 about code blocks
C33_CodeBracketed == [][BracketedStep({"CodeBlock"})]_vars

\* no construct is open in the parser
NoConstructOpen ==
    /\ ~is_in_code(state)
    /\ code_fence = <<>>
    /\ state.block_depth = 0
    /\ state.block_type = "None"
    /\ state.list_item_stack = <<>>
    /\ ~state.in_list
    /\ state.ordered_list_numbers = <<>>
    /\ table_state = "None"
    /\ state.in_table = "None"
    /\ ~list_pending_close

\* C34: after finalize no construct is open (no code block, block depth 0 with no block
\* kind, empty list stack, no table, no pending list close), and a second finalize
\* called immediately afterwards returns no events
C34_FinalizeClosesAll ==
    [][op' = "finalize" =>
          /\ NoConstructOpen'
          /\ finalize(Self').events = <<>>
          /\ op = "finalize" => events' = <<>>]_vars

\* finalize has closed a code block and a list
C34_Witness ==
    /\ op = "finalize"
    /\ Has(events, "CodeBlockEnd")
    /\ Has(events, "ListEnd")
    /\ NoConstructOpen

\* the events a parser returns for each line of ls in turn, then for finalize
RECURSIVE RunEvents(_, _)
RunEvents(self, ls) ==
    IF ls = <<>> THEN <<finalize(self).events>>
    ELSE With(parse_line(self, Head(ls)), LAMBDA s : <<s.events>> \o RunEvents(s, Tail(ls)))

\* the line sequences a reset parser is compared on with a new one
Probes == {<<>>} \cup {<<a>> : a \in ResetLines} \cup {<<a, b>> : a, b \in ResetLines}

\* C35: after reset the parser emits, for every following sequence of lines, the events
\* a parser from Parser::new() emits, whatever was parsed, however the parser was
\* constructed and whichever switches were set before
C35_ResetAsNew ==
    [][op' = "reset" => \A ls \in Probes : RunEvents(Self', ls) = RunEvents(Parser_new, ls)]_vars

-----------------------------------------------------------------------------
\* Properties of the command line program

\* C36: what the program writes for a line is what a single renderer, given every
\* event of the parser from the first line on, writes for the events of that line:
\* the code language, the blockquote depth, the header phase of a table and the
\* nesting of a list set by earlier lines are still in effect
C36_AsOneRenderer == cli.written = cli.whole

\* C37: a line read while a code block is open is given to the parser, whatever the
\* plugins registered, and is written as a line of the code block (or closes it)
C37_FencedLinesReachParser ==
    [][(is_in_code(state) /\ cli'.n = cli.n + 1)
          => /\ cli'.by = "parser"
             /\ arg' = cli'.line
             /\ \A i \in 1..Len(cli'.written) :
                    cli'.written[i].type \in {"CodeBlockLine", "CodeBlockEnd"}]_vars

\* C38: once the input has ended, every construct whose start was written has had
\* its end written: no code block, think block, blockquote, list or table is open
C38_ClosedAtEof == cli.pc = "done" => opened = NothingOpen

\* C38, for code blocks alone
C38_CodeClosedAtEof == cli.pc = "done" => ~opened.code

-----------------------------------------------------------------------------
\* Properties of the tokenizer

\* the source text of a sequence of tokens, one after the other
RECURSIVE SourceOf(_)
SourceOf(tokens) ==
    IF tokens = <<>> THEN <<>> ELSE TokenSource(Head(tokens)) \o SourceOf(Tail(tokens))

\* C39: the source text of the tokens of a line, concatenated in order, is the line
C39_TokensLossless ==
    [][(op' = "parse_line" /\ arg' \in TokenLines) => SourceOf(TokensOf(arg')) = arg']_vars

-----------------------------------------------------------------------------
\* Algebraic properties of ansi_collapse

\* C40: collapsing a list of codes gives what collapsing any prefix of it first and
\* then the collapsed prefix followed by the rest gives; with the whole list as the
\* prefix, collapsing a collapsed list changes nothing
C40_CollapseComposes ==
    ac.pc = "returned" =>
        \A k \in 0..Len(ac.code_list) :
            With(ansi_collapse(SubSeq(ac.code_list, 1, k)), LAMBDA a :
                 ansi_collapse(a \o SubSeq(ac.code_list, k + 1, Len(ac.code_list))) = ac.result)

\* C40: two codes that collapse to something else, followed by a code that switches
\* part of it off
C40_Witness ==
    /\ ac.pc = "returned"
    /\ Len(ac.code_list) = 3
    /\ ac.code_list[3] = Sgr(<<"2", "2">>)
    /\ ansi_collapse(SubSeq(ac.code_list, 1, 2)) # SubSeq(ac.code_list, 1, 2)
    /\ Len(ansi_collapse(SubSeq(ac.code_list, 1, 2))) = 2
    /\ ac.result # ansi_collapse(SubSeq(ac.code_list, 1, 2))
    /\ ac.result # <<>>

=============================================================================
